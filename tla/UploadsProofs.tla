--------------------------- MODULE UploadsProofs ---------------------------
(***************************************************************************)
(* Proofs about Uploads, for any files, cleaners and fields.               *)
(***************************************************************************)
EXTENDS Uploads, NaturalsInduction, WellFoundedInduction, TLAPS

-----------------------------------------------------------------------------
(***************************************************************************)
(* Lists of items.                                                         *)
(***************************************************************************)

\* What is left of a list without one of its items is made of its other items.
LEMMA WithoutOne ==
  ASSUME NEW S, NEW s \in Seq(S), NEW n \in 1..Len(s)
  PROVE  LET t == SubSeq(s, 1, n - 1) \o SubSeq(s, n + 1, Len(s))
         IN /\ t \in Seq(S)
            /\ Len(t) = Len(s) - 1
            /\ \A i \in 1..Len(t) : t[i] = IF i < n THEN s[i] ELSE s[i + 1]
<1> DEFINE a == SubSeq(s, 1, n - 1)
           b == SubSeq(s, n + 1, Len(s))
<1>1. a \in Seq(S) /\ Len(a) = n - 1 /\ \A i \in 1..(n - 1) : a[i] = s[i]
  OBVIOUS
<1>2. b \in Seq(S) /\ Len(b) = Len(s) - n /\ \A i \in 1..(Len(s) - n) : b[i] = s[n + i]
  OBVIOUS
<1> HIDE DEF a, b
<1>3. a \o b \in Seq(S) /\ Len(a \o b) = Len(s) - 1
  <2>1. a \in Seq(S) /\ b \in Seq(S) /\ Len(a) = n - 1 /\ Len(b) = Len(s) - n
    BY <1>1, <1>2
  <2>2. a \o b \in Seq(S) /\ Len(a \o b) = Len(a) + Len(b)
    BY <2>1
  <2>3. Len(s) \in Nat
    OBVIOUS
  <2> QED
    BY <2>1, <2>2, <2>3
<1>4. ASSUME NEW i \in 1..Len(a \o b)
      PROVE  (a \o b)[i] = IF i < n THEN s[i] ELSE s[i + 1]
  <2>1. CASE i < n
    BY <1>1, <1>2, <1>3, <2>1
  <2>2. CASE ~(i < n)
    <3>1. (a \o b)[i] = b[i - Len(a)]
      BY <1>1, <1>2, <1>3, <2>2
    <3>2. i - Len(a) \in 1..(Len(s) - n) /\ n + (i - Len(a)) = i + 1
      BY <1>1, <1>2, <1>3, <2>2
    <3>3. b[i - Len(a)] = s[n + (i - Len(a))]
      BY <1>2, <3>2
    <3> QED
      BY <3>1, <3>2, <3>3, <2>2
  <2> QED
    BY <2>1, <2>2
<1> QED
  BY <1>3, <1>4 DEF a, b

\* A page without the node of a file, or that had none.
LEMMA WithoutNodeIsPart ==
  ASSUME items \in Seq(Item), NEW f \in Files
  PROVE  /\ WithoutNode(f) \in Seq(Item)
         /\ \A i \in 1..Len(WithoutNode(f)) :
              \E j \in 1..Len(items) : WithoutNode(f)[i] = items[j]
<1>1. CASE NodesOf(f) = {}
  BY <1>1 DEF WithoutNode
<1>2. CASE NodesOf(f) # {}
  <2> DEFINE n == CHOOSE i \in NodesOf(f) : TRUE
  <2>1. n \in 1..Len(items)
    BY <1>2 DEF NodesOf
  <2>2. WithoutNode(f) = SubSeq(items, 1, n - 1) \o SubSeq(items, n + 1, Len(items))
    BY <1>2 DEF WithoutNode
  <2> HIDE DEF n
  <2>3. /\ WithoutNode(f) \in Seq(Item)
        /\ Len(WithoutNode(f)) = Len(items) - 1
        /\ \A i \in 1..Len(WithoutNode(f)) :
             WithoutNode(f)[i] = IF i < n THEN items[i] ELSE items[i + 1]
    <3> DEFINE t == SubSeq(items, 1, n - 1) \o SubSeq(items, n + 1, Len(items))
    <3>1. /\ t \in Seq(Item)
          /\ Len(t) = Len(items) - 1
          /\ \A i \in 1..Len(t) : t[i] = IF i < n THEN items[i] ELSE items[i + 1]
      <4> HIDE DEF Item
      <4> QED
        BY <2>1, WithoutOne
    <3> QED
      BY <2>2, <3>1, Zenon
  <2>4. ASSUME NEW i \in 1..Len(WithoutNode(f))
        PROVE  \E j \in 1..Len(items) : WithoutNode(f)[i] = items[j]
    <3>1. CASE i < n
      BY <2>1, <2>3, <3>1
    <3>2. CASE ~(i < n)
      <4>1. i + 1 \in 1..Len(items)
        BY <2>1, <2>3, <3>2
      <4>2. WithoutNode(f)[i] = items[i + 1]
        BY <2>3, <3>2
      <4> QED
        BY <4>1, <4>2
    <3> QED
      BY <3>1, <3>2
  <2> QED
    BY <2>3, <2>4
<1> QED
  BY <1>1, <1>2

\* A page whose files have one node each has none of a file without it.
LEMMA WithoutNodeIsWithout ==
  ASSUME items \in Seq(Item), NEW f \in Files,
         \A i, j \in NodesOf(f) : i = j
  PROVE  \A i \in 1..Len(WithoutNode(f)) : ~IsNodeOf(WithoutNode(f)[i], f)
<1>1. CASE NodesOf(f) = {}
  BY <1>1 DEF WithoutNode, NodesOf
<1>2. CASE NodesOf(f) # {}
  <2> DEFINE n == CHOOSE i \in NodesOf(f) : TRUE
  <2>1. n \in NodesOf(f) /\ n \in 1..Len(items)
    BY <1>2 DEF NodesOf
  <2>2. WithoutNode(f) = SubSeq(items, 1, n - 1) \o SubSeq(items, n + 1, Len(items))
    BY <1>2 DEF WithoutNode
  <2> HIDE DEF n
  <2>3. /\ Len(WithoutNode(f)) = Len(items) - 1
        /\ \A i \in 1..Len(WithoutNode(f)) :
             WithoutNode(f)[i] = IF i < n THEN items[i] ELSE items[i + 1]
    BY <2>1, <2>2, WithoutOne, Zenon
  <2>4. ASSUME NEW i \in 1..Len(WithoutNode(f))
        PROVE  ~IsNodeOf(WithoutNode(f)[i], f)
    <3>1. CASE i < n
      <4>1. i \in 1..Len(items) /\ i # n
        BY <2>1, <2>3, <3>1
      <4> QED
        BY <2>1, <2>3, <3>1, <4>1 DEF NodesOf
    <3>2. CASE ~(i < n)
      <4>1. i + 1 \in 1..Len(items) /\ i + 1 # n
        BY <2>1, <2>3, <3>2
      <4> QED
        BY <2>1, <2>3, <3>2, <4>1 DEF NodesOf
    <3> QED
      BY <3>1, <3>2
  <2> QED
    BY <2>4
<1> QED
  BY <1>1, <1>2

\* Every node of a page that the server renders is the object's file, or an
\* upload with its handle.
LEMMA RenderedItems ==
  ASSUME value \in [file : Contents, named : BOOLEAN],
         NEW handles \in Seq(Files)
  PROVE  /\ Rendered(handles) \in Seq(Item)
         /\ \A i \in 1..Len(Rendered(handles)) :
              \/ Rendered(handles)[i] = ExistingItem /\ value.file # None
              \/ \E j \in 1..Len(handles) : Rendered(handles)[i] = UploadedItem(handles[j])
<1> DEFINE existing == IF value.file # None /\ (field.multiple \/ handles = <<>>)
                       THEN <<ExistingItem>> ELSE <<>>
           uploaded == [i \in 1..Len(handles) |-> UploadedItem(handles[i])]
<1>1. value.file # None => ExistingItem \in Item
  BY DEF ExistingItem, Item, Contents
<1>2. existing \in Seq(Item)
  BY <1>1
<1>3. \A i \in 1..Len(existing) : existing[i] = ExistingItem /\ value.file # None
  OBVIOUS
<1>4. \A h \in Files : UploadedItem(h) \in Item
  BY DEF UploadedItem, Item
<1>5. uploaded \in Seq(Item) /\ Len(uploaded) = Len(handles)
  <2>1. \A i \in 1..Len(handles) : UploadedItem(handles[i]) \in Item
    BY <1>4
  <2> QED
    BY <2>1
<1>6. \A i \in 1..Len(uploaded) : uploaded[i] = UploadedItem(handles[i])
  BY <1>5
<1>7. Rendered(handles) = existing \o uploaded
  BY DEF Rendered
<1> HIDE DEF existing, uploaded
<1>8. Rendered(handles) \in Seq(Item)
      /\ Len(Rendered(handles)) = Len(existing) + Len(uploaded)
  BY <1>2, <1>5, <1>7
<1>9. ASSUME NEW i \in 1..Len(Rendered(handles))
      PROVE  \/ Rendered(handles)[i] = ExistingItem /\ value.file # None
             \/ \E j \in 1..Len(handles) : Rendered(handles)[i] = UploadedItem(handles[j])
  <2>1. CASE i <= Len(existing)
    <3>1. Rendered(handles)[i] = existing[i] /\ i \in 1..Len(existing)
      BY <1>2, <1>5, <1>7, <2>1
    <3> QED
      BY <3>1, <1>3
  <2>2. CASE ~(i <= Len(existing))
    <3>1. i - Len(existing) \in 1..Len(uploaded)
          /\ Rendered(handles)[i] = uploaded[i - Len(existing)]
      BY <1>2, <1>5, <1>7, <1>8, <2>2
    <3> QED
      BY <3>1, <1>5, <1>6
  <2> QED
    BY <2>1, <2>2
<1> QED
  BY <1>8, <1>9

\* Every handle that a page is rendered with has its node in it.
LEMMA RenderedHandles ==
  ASSUME value \in [file : Contents, named : BOOLEAN],
         NEW handles \in Seq(Files), NEW j \in 1..Len(handles)
  PROVE  \E k \in 1..Len(Rendered(handles)) : Rendered(handles)[k].handle = handles[j]
<1> DEFINE existing == IF value.file # None /\ (field.multiple \/ handles = <<>>)
                       THEN <<ExistingItem>> ELSE <<>>
           uploaded == [i \in 1..Len(handles) |-> UploadedItem(handles[i])]
<1>1. value.file # None => ExistingItem \in Item
  BY DEF ExistingItem, Item, Contents
<1>2. existing \in Seq(Item) /\ Len(existing) \in Nat
  BY <1>1
<1>3. \A h \in Files : UploadedItem(h) \in Item
  BY DEF UploadedItem, Item
<1>4. uploaded \in Seq(Item) /\ Len(uploaded) = Len(handles)
  <2>1. \A i \in 1..Len(handles) : UploadedItem(handles[i]) \in Item
    BY <1>3
  <2> QED
    BY <2>1
<1>5. uploaded[j] = UploadedItem(handles[j])
  OBVIOUS
<1>6. Rendered(handles) = existing \o uploaded
  BY DEF Rendered
<1> HIDE DEF existing, uploaded
<1>7. /\ Len(existing) + j \in 1..Len(Rendered(handles))
      /\ Rendered(handles)[Len(existing) + j] = uploaded[j]
  BY <1>2, <1>4, <1>6
<1>8. uploaded[j].handle = handles[j]
  BY <1>5 DEF UploadedItem
<1> QED
  BY <1>7, <1>8

-----------------------------------------------------------------------------
(***************************************************************************)
(* The handles of a form.                                                  *)
(***************************************************************************)
LEMMA HandlesOfType ==
  ASSUME NEW list \in Seq(Item)
  PROVE  /\ IsHandles(HandlesOf(list))
         /\ DOMAIN HandlesOf(list) = {i \in 1..Len(list) : list[i].handle # None}
         /\ \A i \in DOMAIN HandlesOf(list) : HandlesOf(list)[i] = list[i].handle
<1>1. \A i \in 1..Len(list) : list[i].handle # None => list[i].handle \in Files
  <2> SUFFICES ASSUME NEW i \in 1..Len(list), list[i].handle # None
               PROVE  list[i].handle \in Files
    OBVIOUS
  <2>1. list[i] \in Item
    OBVIOUS
  <2> QED
    BY <2>1 DEF Item
<1> QED
  BY <1>1 DEF HandlesOf, IsHandles

\* There is a first handle unless there is none.
LEMMA FirstHandle ==
  ASSUME NEW h, IsHandles(h), DOMAIN h # {}
  PROVE  /\ FirstAt(h) \in DOMAIN h
         /\ \A j \in DOMAIN h : FirstAt(h) <= j
         /\ First(h) \in Files
<1>1. PICK i \in DOMAIN h : \A j \in DOMAIN h : ~(<<j, i>> \in OpToRel(<, Nat))
  <2>1. DOMAIN h \subseteq Nat
    BY DEF IsHandles
  <2> QED
    BY <2>1, NatLessThanWellFounded, WFMin
<1>2. \A j \in DOMAIN h : i <= j
  <2>1. DOMAIN h \subseteq Nat
    BY DEF IsHandles
  <2>2. \A j \in DOMAIN h : ~(j < i)
    BY <1>1, <2>1, Zenon DEF OpToRel
  <2> QED
    BY <2>1, <2>2
<1>3. FirstAt(h) \in DOMAIN h /\ \A j \in DOMAIN h : FirstAt(h) <= j
  BY <1>2, Zenon DEF FirstAt
<1> QED
  BY <1>3 DEF First, IsHandles

LEMMA OtherHandles ==
  ASSUME NEW h, IsHandles(h)
  PROVE  /\ IsHandles(Others(h))
         /\ DOMAIN Others(h) \subseteq DOMAIN h
         /\ \A i \in DOMAIN Others(h) : Others(h)[i] = h[i]
  BY DEF Others, IsHandles

-----------------------------------------------------------------------------
(***************************************************************************)
(* Types.                                                                  *)
(***************************************************************************)
LEMMA TypeInit == Init => TypeOK
<1> SUFFICES ASSUME Init PROVE TypeOK
  OBVIOUS
<1> USE UploadsAssumption DEF Init
<1>1. TypePage
  <2>1. ExistingItem \in Item
    BY DEF ExistingItem, Item
  <2>2. items \in Seq(Item)
    <3>1. items = <<ExistingItem>>
      OBVIOUS
    <3> QED
      BY <2>1, <3>1
  <2> QED
    BY <2>2 DEF TypePage, NoUploads
<1>2. TypeServer
  BY DEF TypeServer
<1>3. TypeCleaner
  BY DEF TypeCleaner, Idle
<1>4. TypeDeleter
  BY DEF TypeDeleter, NotDeleting
<1>5. TypeForm
  BY DEF TypeForm, NoForm, IsHandles
<1>6. TypeValue
  BY DEF TypeValue, NoSubmission, Contents
<1> QED
  BY <1>1, <1>2, <1>3, <1>4, <1>5, <1>6 DEF TypeOK

-----------------------------------------------------------------------------
(***************************************************************************)
(* Which steps change what.                                                *)
(***************************************************************************)
LEMMA PageChanges ==
  ASSUME [Next]_vars
  PROVE  \/ UNCHANGED page
         \/ \E how \in {"click", "enter"} : Submit(how)
         \/ OpenStream
         \/ PopulateObj
         \/ StatFails
         \/ ShowForm
  BY DEF Next, ServeUpload, Clear, ServeForm, RemoveFile, OnExistingNodeChange,
       AddFile, RemoveFileNode, OnFileComplete, LoseConnection, NoUserDir,
       MakeUserDir, WriteContent, WriteMetadata, UploadDies, DeleteFile, GrowOld,
       StartClearing, ClearNext, StatRaises, UnlinkContent, EndClearing,
       LookUpMetadata, DeleteUnlinks, ProcessFormdata, ReadMetadata, Invalid,
       BuildUploadsList, Serve, Unlink, Answer, FormStep, ShowPage, vars,
       pageVars, serverVars

LEMMA ItemsChange ==
  ASSUME [Next]_vars
  PROVE  \/ UNCHANGED items
         \/ OnExistingNodeChange
         \/ \E f \in Files : AddFile(f)
         \/ \E f \in Files : RemoveFileNode(f)
         \/ \E f \in Files : OnFileComplete(f)
         \/ ShowForm
  BY DEF Next, ServeUpload, Clear, ServeForm, RemoveFile, Submit, LoseConnection,
       NoUserDir, MakeUserDir, WriteContent, WriteMetadata, UploadDies,
       DeleteFile, GrowOld, StartClearing, ClearNext, StatRaises, UnlinkContent,
       EndClearing, LookUpMetadata, DeleteUnlinks, ProcessFormdata, ReadMetadata,
       OpenStream, Invalid, PopulateObj, BuildUploadsList, StatFails, Serve,
       Unlink, Answer, FormStep, ShowPage, vars, pageVars, serverVars

LEMMA SendingChanges ==
  ASSUME [Next]_vars
  PROVE  \/ UNCHANGED sending
         \/ \E how \in {"click", "enter"} : Submit(how)
         \/ \E f \in Files : AddFile(f)
         \/ \E f \in Files : OnFileComplete(f)
         \/ \E f \in Files : LoseConnection(f)
         \/ \E f \in Files : MakeUserDir(f)
         \/ \E f \in Files : WriteMetadata(f)
         \/ \E f \in Files : UploadDies(f)
         \/ ShowForm
  BY DEF Next, ServeUpload, Clear, ServeForm, RemoveFile, OnExistingNodeChange,
       RemoveFileNode, NoUserDir, WriteContent, DeleteFile, GrowOld,
       StartClearing, ClearNext, StatRaises, UnlinkContent, EndClearing,
       LookUpMetadata, DeleteUnlinks, ProcessFormdata, ReadMetadata, OpenStream,
       Invalid, PopulateObj, BuildUploadsList, StatFails, Serve, Unlink, Answer,
       FormStep, ShowPage, vars, pageVars, serverVars

LEMMA DisabledChanges ==
  ASSUME [Next]_vars
  PROVE  \/ UNCHANGED disabled
         \/ \E how \in {"click", "enter"} : Submit(how)
         \/ ShowForm
  BY DEF Next, ServeUpload, Clear, ServeForm, RemoveFile, OnExistingNodeChange,
       AddFile, RemoveFileNode, OnFileComplete, LoseConnection, NoUserDir,
       MakeUserDir, WriteContent, WriteMetadata, UploadDies, DeleteFile, GrowOld,
       StartClearing, ClearNext, StatRaises, UnlinkContent, EndClearing,
       LookUpMetadata, DeleteUnlinks, ProcessFormdata, ReadMetadata, OpenStream,
       Invalid, PopulateObj, BuildUploadsList, StatFails, Serve, Unlink, Answer,
       FormStep, ShowPage, vars, pageVars, serverVars

LEMMA ServerChanges ==
  ASSUME [Next]_vars
  PROVE  \/ UNCHANGED server
         \/ \E f \in Files : AddFile(f)
         \/ \E f \in Files : NoUserDir(f)
         \/ \E f \in Files : MakeUserDir(f)
         \/ \E f \in Files : WriteContent(f)
         \/ \E f \in Files : WriteMetadata(f)
         \/ \E f \in Files : UploadDies(f)
  BY DEF Next, ServeUpload, Clear, ServeForm, RemoveFile, OnExistingNodeChange,
       Submit, RemoveFileNode, OnFileComplete, LoseConnection, DeleteFile,
       GrowOld, StartClearing, ClearNext, StatRaises, UnlinkContent, EndClearing,
       LookUpMetadata, DeleteUnlinks, ProcessFormdata, ReadMetadata, OpenStream,
       Invalid, PopulateObj, BuildUploadsList, StatFails, ShowForm, Serve, Unlink,
       Answer, FormStep, ShowPage, vars, pageVars, serverVars

LEMMA DirChanges ==
  ASSUME [Next]_vars
  PROVE  \/ UNCHANGED dir
         \/ \E f \in Files : MakeUserDir(f)
  BY DEF Next, ServeUpload, Clear, ServeForm, RemoveFile, OnExistingNodeChange,
       Submit, AddFile, RemoveFileNode, OnFileComplete, LoseConnection, NoUserDir,
       WriteContent, WriteMetadata, UploadDies, DeleteFile, GrowOld,
       StartClearing, ClearNext, StatRaises, UnlinkContent, EndClearing,
       LookUpMetadata, DeleteUnlinks, ProcessFormdata, ReadMetadata, OpenStream,
       Invalid, PopulateObj, BuildUploadsList, StatFails, ShowForm, Serve, Unlink,
       Answer, FormStep, ShowPage, vars, pageVars, serverVars

LEMMA DiskChanges ==
  ASSUME [Next]_vars
  PROVE  \/ UNCHANGED disk
         \/ \E f \in Files : WriteContent(f)
         \/ \E f \in Files : UploadDies(f)
         \/ \E c \in Cleaners : UnlinkContent(c)
         \/ RemoveFile
  BY DEF Next, ServeUpload, Clear, ServeForm, OnExistingNodeChange, Submit,
       AddFile, RemoveFileNode, OnFileComplete, LoseConnection, NoUserDir,
       MakeUserDir, WriteMetadata, DeleteFile, GrowOld, StartClearing, ClearNext,
       StatRaises, EndClearing, ProcessFormdata, ReadMetadata, OpenStream,
       Invalid, PopulateObj, BuildUploadsList, StatFails, ShowForm, Serve, Unlink,
       Answer, FormStep, ShowPage, vars, pageVars, serverVars

LEMMA MetaChanges ==
  ASSUME [Next]_vars
  PROVE  \/ UNCHANGED meta
         \/ \E f \in Files : WriteMetadata(f)
         \/ \E c \in Cleaners : UnlinkContent(c)
         \/ RemoveFile
  BY DEF Next, ServeUpload, Clear, ServeForm, OnExistingNodeChange, Submit,
       AddFile, RemoveFileNode, OnFileComplete, LoseConnection, NoUserDir,
       MakeUserDir, WriteContent, UploadDies, DeleteFile, GrowOld, StartClearing,
       ClearNext, StatRaises, EndClearing, ProcessFormdata, ReadMetadata,
       OpenStream, Invalid, PopulateObj, BuildUploadsList, StatFails, ShowForm,
       Serve, Unlink, Answer, FormStep, ShowPage, vars, pageVars, serverVars

LEMMA OldChanges ==
  ASSUME [Next]_vars
  PROVE  \/ UNCHANGED old
         \/ \E p \in Paths : GrowOld(p)
  BY DEF Next, ServeUpload, Clear, ServeForm, RemoveFile, OnExistingNodeChange,
       Submit, AddFile, RemoveFileNode, OnFileComplete, LoseConnection, NoUserDir,
       MakeUserDir, WriteContent, WriteMetadata, UploadDies, DeleteFile,
       StartClearing, ClearNext, StatRaises, UnlinkContent, EndClearing,
       LookUpMetadata, DeleteUnlinks, ProcessFormdata, ReadMetadata, OpenStream,
       Invalid, PopulateObj, BuildUploadsList, StatFails, ShowForm, Serve, Unlink,
       Answer, FormStep, ShowPage, vars, pageVars, serverVars

LEMMA RevokedChanges ==
  ASSUME [Next]_vars
  PROVE  \/ UNCHANGED revoked
         \/ \E f \in Files : DeleteFile(f)
  BY DEF Next, ServeUpload, Clear, ServeForm, RemoveFile, OnExistingNodeChange,
       Submit, AddFile, RemoveFileNode, OnFileComplete, LoseConnection, NoUserDir,
       MakeUserDir, WriteContent, WriteMetadata, UploadDies, GrowOld,
       StartClearing, ClearNext, StatRaises, UnlinkContent, EndClearing,
       LookUpMetadata, DeleteUnlinks, ProcessFormdata, ReadMetadata, OpenStream,
       Invalid, PopulateObj, BuildUploadsList, StatFails, ShowForm, Serve, Unlink,
       Answer, FormStep, ShowPage, vars, pageVars, serverVars

LEMMA CleanerChanges ==
  ASSUME [Next]_vars
  PROVE  \/ UNCHANGED cleaner
         \/ \E c \in Cleaners : StartClearing(c)
         \/ \E c \in Cleaners, p \in Paths : ClearNext(c, p)
         \/ \E c \in Cleaners, p \in Paths : StatRaises(c, p)
         \/ \E c \in Cleaners : UnlinkContent(c)
         \/ \E c \in Cleaners : EndClearing(c)
  BY DEF Next, ServeUpload, Clear, ServeForm, RemoveFile, OnExistingNodeChange,
       Submit, AddFile, RemoveFileNode, OnFileComplete, LoseConnection, NoUserDir,
       MakeUserDir, WriteContent, WriteMetadata, UploadDies, DeleteFile, GrowOld,
       LookUpMetadata, DeleteUnlinks, ProcessFormdata, ReadMetadata, OpenStream,
       Invalid, PopulateObj, BuildUploadsList, StatFails, ShowForm, Serve, Unlink,
       Answer, FormStep, ShowPage, vars, pageVars, serverVars

LEMMA DeleterChanges ==
  ASSUME [Next]_vars
  PROVE  \/ UNCHANGED deleter
         \/ \E f \in Files : DeleteFile(f)
         \/ RemoveFile
  BY DEF Next, ServeUpload, Clear, ServeForm, OnExistingNodeChange, Submit,
       AddFile, RemoveFileNode, OnFileComplete, LoseConnection, NoUserDir,
       MakeUserDir, WriteContent, WriteMetadata, UploadDies, GrowOld,
       StartClearing, ClearNext, StatRaises, UnlinkContent, EndClearing,
       ProcessFormdata, ReadMetadata, OpenStream, Invalid, PopulateObj,
       BuildUploadsList, StatFails, ShowForm, Serve, Unlink, Answer, FormStep,
       ShowPage, vars, pageVars, serverVars

LEMMA FormChanges ==
  ASSUME [Next]_vars
  PROVE  \/ UNCHANGED form
         \/ \E how \in {"click", "enter"} : Submit(how)
         \/ ProcessFormdata
         \/ ReadMetadata
         \/ OpenStream
         \/ Invalid
         \/ PopulateObj
         \/ BuildUploadsList
         \/ StatFails
         \/ ShowForm
  BY DEF Next, ServeUpload, Clear, ServeForm, RemoveFile, OnExistingNodeChange,
       AddFile, RemoveFileNode, OnFileComplete, LoseConnection, NoUserDir,
       MakeUserDir, WriteContent, WriteMetadata, UploadDies, DeleteFile, GrowOld,
       StartClearing, ClearNext, StatRaises, UnlinkContent, EndClearing,
       LookUpMetadata, DeleteUnlinks, Serve, Unlink, Answer, FormStep, ShowPage,
       vars, pageVars, serverVars

LEMMA ValueChanges ==
  ASSUME [Next]_vars
  PROVE  \/ UNCHANGED value
         \/ PopulateObj
  BY DEF Next, ServeUpload, Clear, ServeForm, RemoveFile, OnExistingNodeChange,
       Submit, AddFile, RemoveFileNode, OnFileComplete, LoseConnection, NoUserDir,
       MakeUserDir, WriteContent, WriteMetadata, UploadDies, DeleteFile, GrowOld,
       StartClearing, ClearNext, StatRaises, UnlinkContent, EndClearing,
       LookUpMetadata, DeleteUnlinks, ProcessFormdata, ReadMetadata, OpenStream,
       Invalid, BuildUploadsList, StatFails, ShowForm, Serve, Unlink, Answer,
       FormStep, ShowPage, vars, pageVars, serverVars

LEMMA ShownChanges ==
  ASSUME [Next]_vars
  PROVE  \/ UNCHANGED shown
         \/ \E how \in {"click", "enter"} : Submit(how)
         \/ ShowForm
  BY DEF Next, ServeUpload, Clear, ServeForm, RemoveFile, OnExistingNodeChange,
       AddFile, RemoveFileNode, OnFileComplete, LoseConnection, NoUserDir,
       MakeUserDir, WriteContent, WriteMetadata, UploadDies, DeleteFile, GrowOld,
       StartClearing, ClearNext, StatRaises, UnlinkContent, EndClearing,
       LookUpMetadata, DeleteUnlinks, ProcessFormdata, ReadMetadata, OpenStream,
       Invalid, PopulateObj, BuildUploadsList, StatFails, Serve, Unlink, Answer,
       FormStep, ShowPage, vars, pageVars, serverVars

LEMMA StoreChanges ==
  ASSUME [Next]_vars
  PROVE  \/ UNCHANGED <<server, disk, meta>>
         \/ \E f \in Files : AddFile(f)
         \/ \E f \in Files : NoUserDir(f)
         \/ \E f \in Files : MakeUserDir(f)
         \/ \E f \in Files : WriteContent(f)
         \/ \E f \in Files : WriteMetadata(f)
         \/ \E f \in Files : UploadDies(f)
         \/ \E c \in Cleaners : UnlinkContent(c)
         \/ RemoveFile
  BY DEF Next, ServeUpload, Clear, ServeForm, OnExistingNodeChange, Submit,
       RemoveFileNode, OnFileComplete, LoseConnection, DeleteFile, GrowOld,
       StartClearing, ClearNext, StatRaises, EndClearing, ProcessFormdata,
       ReadMetadata, OpenStream, Invalid, PopulateObj, BuildUploadsList,
       StatFails, ShowForm, Serve, Unlink, Answer, FormStep, ShowPage, vars,
       pageVars, serverVars

LEMMA AnswersChange ==
  ASSUME [Next]_vars
  PROVE  \/ UNCHANGED <<server, sending>>
         \/ \E how \in {"click", "enter"} : Submit(how)
         \/ \E f \in Files : AddFile(f)
         \/ \E f \in Files : OnFileComplete(f)
         \/ \E f \in Files : LoseConnection(f)
         \/ \E f \in Files : NoUserDir(f)
         \/ \E f \in Files : MakeUserDir(f)
         \/ \E f \in Files : WriteContent(f)
         \/ \E f \in Files : WriteMetadata(f)
         \/ \E f \in Files : UploadDies(f)
         \/ ShowForm
  BY DEF Next, ServeUpload, Clear, ServeForm, RemoveFile, OnExistingNodeChange,
       RemoveFileNode, DeleteFile, GrowOld, StartClearing, ClearNext, StatRaises,
       UnlinkContent, EndClearing, LookUpMetadata, DeleteUnlinks, ProcessFormdata,
       ReadMetadata, OpenStream, Invalid, PopulateObj, BuildUploadsList,
       StatFails, Serve, Unlink, Answer, FormStep, ShowPage, vars, pageVars,
       serverVars

LEMMA NodesChange ==
  ASSUME [Next]_vars
  PROVE  \/ UNCHANGED <<page, items, sending>>
         \/ OnExistingNodeChange
         \/ \E how \in {"click", "enter"} : Submit(how)
         \/ \E f \in Files : AddFile(f)
         \/ \E f \in Files : RemoveFileNode(f)
         \/ \E f \in Files : OnFileComplete(f)
         \/ \E f \in Files : LoseConnection(f)
         \/ \E f \in Files : MakeUserDir(f)
         \/ \E f \in Files : WriteMetadata(f)
         \/ \E f \in Files : UploadDies(f)
         \/ OpenStream
         \/ PopulateObj
         \/ StatFails
         \/ ShowForm
  BY DEF Next, ServeUpload, Clear, ServeForm, RemoveFile, NoUserDir, WriteContent,
       DeleteFile, GrowOld, StartClearing, ClearNext, StatRaises, UnlinkContent,
       EndClearing, LookUpMetadata, DeleteUnlinks, ProcessFormdata, ReadMetadata,
       Invalid, BuildUploadsList, Serve, Unlink, Answer, FormStep, ShowPage, vars,
       pageVars, serverVars

LEMMA SubmissionChanges ==
  ASSUME [Next]_vars
  PROVE  \/ UNCHANGED <<form, page, value, shown>>
         \/ \E how \in {"click", "enter"} : Submit(how)
         \/ ProcessFormdata
         \/ ReadMetadata
         \/ OpenStream
         \/ Invalid
         \/ PopulateObj
         \/ BuildUploadsList
         \/ StatFails
         \/ ShowForm
  BY DEF Next, ServeUpload, Clear, ServeForm, RemoveFile, OnExistingNodeChange,
       AddFile, RemoveFileNode, OnFileComplete, LoseConnection, NoUserDir,
       MakeUserDir, WriteContent, WriteMetadata, UploadDies, DeleteFile, GrowOld,
       StartClearing, ClearNext, StatRaises, UnlinkContent, EndClearing,
       LookUpMetadata, DeleteUnlinks, Serve, Unlink, Answer, FormStep, ShowPage,
       vars, pageVars, serverVars

LEMMA FieldStays ==
  ASSUME [Next]_vars
  PROVE  UNCHANGED field
  BY DEF Next, ServeUpload, Clear, ServeForm, RemoveFile, OnExistingNodeChange,
       Submit, AddFile, RemoveFileNode, OnFileComplete, LoseConnection, NoUserDir,
       MakeUserDir, WriteContent, WriteMetadata, UploadDies, DeleteFile, GrowOld,
       StartClearing, ClearNext, StatRaises, UnlinkContent, EndClearing,
       LookUpMetadata, DeleteUnlinks, ProcessFormdata, ReadMetadata, OpenStream,
       Invalid, PopulateObj, BuildUploadsList, StatFails, ShowForm, Serve, Unlink,
       Answer, FormStep, ShowPage, vars, pageVars, serverVars

-----------------------------------------------------------------------------
(***************************************************************************)
(* Types.                                                                  *)
(***************************************************************************)
LEMMA ItemsType ==
  ASSUME TypeOK, [Next]_vars
  PROVE  items' \in Seq(Item)
<1> USE UploadsAssumption DEF TypeOK, TypePage
<1>1. ASSUME NEW f \in Files, sending[f] \in {"ok", "error"}, OnFileComplete(f)
      PROVE  items' \in Seq(Item)
  <2> DEFINE given == [i \in 1..Len(items) |-> IF i \in ElementForFile(f)
                         THEN [items[i] EXCEPT !.handle = f] ELSE items[i]]
  <2>1. \A item \in Item : [item EXCEPT !.handle = f] \in Item
    BY DEF Item
  <2>2. \A i \in 1..Len(items) : items[i] \in Item
    OBVIOUS
  <2>3. given \in Seq(Item)
    BY <2>1, <2>2
  <2>4. items' = IF sending[f] = "error" THEN WithoutNode(f) ELSE given
    BY <1>1 DEF OnFileComplete
  <2> HIDE DEF given
  <2> QED
    BY <2>3, <2>4, WithoutNodeIsPart
<1>2. CASE OnExistingNodeChange
  <2>1. \A item \in Item : [item EXCEPT !.marked = ~item.marked] \in Item
    BY DEF Item
  <2>2. PICK i \in 1..Len(items) :
          items' = [items EXCEPT ![i].marked = ~items[i].marked] \/ items' = items
    BY <1>2 DEF OnExistingNodeChange
  <2>3. items[i] \in Item
    OBVIOUS
  <2>4. \/ items' = [items EXCEPT ![i] = [items[i] EXCEPT !.marked = ~items[i].marked]]
        \/ items' = items
    BY <2>2
  <2> QED
    BY <2>1, <2>3, <2>4
<1>3. ASSUME NEW f \in Files, AddFile(f)
      PROVE  items' \in Seq(Item)
  <2>1. NewItem(f) \in Item
    BY DEF NewItem, UploadedItem, Item
  <2> QED
    BY <1>3, <2>1 DEF AddFile
<1>4. ASSUME NEW f \in Files, RemoveFileNode(f)
      PROVE  items' \in Seq(Item)
  BY <1>4, WithoutNodeIsPart DEF RemoveFileNode
<1>5. CASE ShowForm
  BY <1>5, RenderedItems DEF ShowForm, ShowPage, TypeForm, TypeValue
<1>6. CASE UNCHANGED items
  BY <1>6
<1>7. \A f \in Files : OnFileComplete(f) => sending[f] \in {"ok", "error"}
  BY DEF OnFileComplete
<1> QED
  BY <1>1, <1>2, <1>3, <1>4, <1>5, <1>6, <1>7, ItemsChange

LEMMA TypePageNext ==
  ASSUME TypeOK, [Next]_vars
  PROVE  TypePage'
<1> USE DEF TypeOK, TypePage
<1>1. field' \in [inForm : BOOLEAN, multiple : BOOLEAN]
  BY FieldStays
<1>2. page' \in {"shown", "posted", "saved", "error"}
  BY PageChanges DEF Submit, OpenStream, PopulateObj, StatFails, ShowForm, ShowPage
<1>3. items' \in Seq(Item)
  BY ItemsType
<1>4. sending' \in [Files -> {"none", "sent", "ok", "error"}]
  BY SendingChanges DEF Submit, AddFile, OnFileComplete, LoseConnection, MakeUserDir,
       WriteMetadata, UploadDies, ShowForm, ShowPage, Answer, NoUploads
<1>5. disabled' \in BOOLEAN
  BY DisabledChanges DEF Submit, ShowForm, ShowPage
<1> QED
  BY <1>1, <1>2, <1>3, <1>4, <1>5

LEMMA TypeServerNext ==
  ASSUME TypeOK, [Next]_vars
  PROVE  TypeServer'
<1> USE DEF TypeOK, TypeServer
<1>1. server' \in [Files -> {"new", "sent", "mkdir", "open", "metadata", "done", "failed"}]
  BY ServerChanges DEF AddFile, NoUserDir, MakeUserDir, WriteContent, WriteMetadata,
       UploadDies, Serve
<1>2. dir' \in BOOLEAN
  BY DirChanges DEF MakeUserDir
<1>3. disk' \in [Files -> {"none", "partial", "whole"}]
  <2>1. \A p : Unlink(p) => disk' \in [Files -> {"none", "partial", "whole"}]
    BY DEF Unlink
  <2> QED
    BY <2>1, DiskChanges DEF WriteContent, UploadDies, UnlinkContent, RemoveFile,
         LookUpMetadata, DeleteUnlinks, serverVars
<1>4. meta' \subseteq Files
  <2>1. \A p : Unlink(p) => meta' \subseteq Files
    BY DEF Unlink
  <2> QED
    BY <2>1, MetaChanges DEF WriteMetadata, UnlinkContent, RemoveFile, LookUpMetadata,
         DeleteUnlinks, serverVars
<1>5. old' \subseteq Paths
  <2>1. \A p \in Paths : GrowOld(p) => old' \subseteq Paths
    BY DEF GrowOld
  <2> QED
    BY <2>1, OldChanges
<1>6. revoked' \subseteq Files
  BY RevokedChanges DEF DeleteFile
<1> QED
  BY <1>1, <1>2, <1>3, <1>4, <1>5, <1>6

LEMMA TypeCleanerNext ==
  ASSUME TypeOK, [Next]_vars
  PROVE  TypeCleaner'
<1> USE DEF TypeOK, TypeCleaner
<1>1. ASSUME NEW c \in Cleaners, StartClearing(c) PROVE TypeCleaner'
  BY <1>1 DEF StartClearing, TypeServer
<1>2. ASSUME NEW c \in Cleaners, NEW p \in Paths, ClearNext(c, p) PROVE TypeCleaner'
  BY <1>2 DEF ClearNext, Left
<1>3. ASSUME NEW c \in Cleaners, NEW p \in Paths, StatRaises(c, p) PROVE TypeCleaner'
  BY <1>3 DEF StatRaises, Idle
<1>4. ASSUME NEW c \in Cleaners, UnlinkContent(c) PROVE TypeCleaner'
  BY <1>4 DEF UnlinkContent, Idle
<1>5. ASSUME NEW c \in Cleaners, EndClearing(c) PROVE TypeCleaner'
  BY <1>5 DEF EndClearing, Idle
<1> QED
  BY <1>1, <1>2, <1>3, <1>4, <1>5, CleanerChanges

LEMMA TypeDeleterNext ==
  ASSUME TypeOK, [Next]_vars
  PROVE  TypeDeleter'
<1> USE DEF TypeOK, TypeDeleter
<1>1. ASSUME NEW f \in Files, DeleteFile(f) PROVE TypeDeleter'
  BY <1>1 DEF DeleteFile, Paths
<1>2. CASE LookUpMetadata
  <2> DEFINE h == deleter.handle
             more == IF disk[h] # "none" /\ h \in meta THEN {<<"metadata", h>>} ELSE {}
  <2>1. more \subseteq Paths
    BY DEF Paths, TypeServer
  <2>2. deleter' = [deleter EXCEPT !.pc = "first", !.paths = deleter.paths \cup more]
    BY <1>2 DEF LookUpMetadata
  <2> HIDE DEF more
  <2> QED
    BY <2>1, <2>2
<1>3. CASE DeleteUnlinks("first", "content", "second")
  BY <1>3 DEF DeleteUnlinks
<1>4. CASE DeleteUnlinks("second", "metadata", "idle")
  BY <1>4 DEF DeleteUnlinks, NotDeleting
<1> QED
  BY <1>1, <1>2, <1>3, <1>4, DeleterChanges DEF RemoveFile

LEMMA TypeFormNext ==
  ASSUME TypeOK, [Next]_vars
  PROVE  TypeForm'
<1> USE UploadsAssumption DEF TypeOK, TypeForm
<1>1. NoForm.handles = <<>> /\ IsHandles(<<>>)
  BY DEF NoForm, IsHandles
<1>2. NoForm \in [pc : {"idle"}, handles : {<<>>}, delete : BOOLEAN, named : BOOLEAN,
                  opened : {None}, listed : Seq(Files)]
  BY DEF NoForm
<1>3. ASSUME NEW how \in {"click", "enter"}, Submit(how) PROVE TypeForm'
  <2>1. IsHandles(HandlesOf(items)) /\ Marked(items) \in BOOLEAN
    BY HandlesOfType DEF TypePage, Marked
  <2> QED
    BY <1>3, <2>1 DEF Submit
<1>4. CASE ProcessFormdata
  BY <1>1, <1>4 DEF ProcessFormdata, FormStep
<1>5. CASE ReadMetadata
  BY <1>5 DEF ReadMetadata, FormStep
<1>6. CASE OpenStream
  <2>1. First(form.handles) \in Files
    BY <1>6, FirstHandle DEF OpenStream
  <2> QED
    BY <1>1, <1>2, <1>6, <2>1 DEF OpenStream
<1>7. CASE Invalid
  BY <1>7 DEF Invalid, FormStep
<1>8. CASE BuildUploadsList
  <2>1. First(form.handles) \in Files /\ IsHandles(Others(form.handles))
    BY <1>8, FirstHandle, OtherHandles DEF BuildUploadsList
  <2> DEFINE list == IF disk[First(form.handles)] = "none" THEN form.listed
                     ELSE Append(form.listed, First(form.handles))
  <2>2. list \in Seq(Files)
    BY <2>1
  <2>3. form.pc = "list"
        /\ form' = [form EXCEPT !.handles = Others(form.handles), !.listed = list]
    BY <1>8 DEF BuildUploadsList
  <2> HIDE DEF list
  <2> QED
    BY <2>1, <2>2, <2>3
<1>9. CASE PopulateObj \/ StatFails \/ ShowForm
  BY <1>1, <1>2, <1>9 DEF PopulateObj, StatFails, ShowForm
<1> QED
  BY <1>3, <1>4, <1>5, <1>6, <1>7, <1>8, <1>9, FormChanges

LEMMA TypeValueNext ==
  ASSUME TypeOK, [Next]_vars
  PROVE  TypeValue'
<1> USE DEF TypeOK, TypeValue, Contents
<1>1. value' \in [file : Contents, named : BOOLEAN]
  <2>1. PopulateObj => value' \in [file : Contents, named : BOOLEAN]
    BY DEF PopulateObj, TypeForm
  <2> QED
    BY <2>1, ValueChanges
<1>2. shown' \in [items : Seq(Item), value : [file : Contents, named : BOOLEAN]]
  <2>1. \A how : Submit(how) => UNCHANGED shown \/ shown' = [items |-> items, value |-> value]
    BY DEF Submit
  <2>2. ShowForm => shown' = [items |-> <<>>, value |-> [file |-> None, named |-> TRUE]]
    BY DEF ShowForm, ShowPage, NoSubmission
  <2>3. UNCHANGED shown \/ shown' = [items |-> items, value |-> value]
        \/ shown' = [items |-> <<>>, value |-> [file |-> None, named |-> TRUE]]
    BY <2>1, <2>2, ShownChanges
  <2>4. items \in Seq(Item) /\ <<>> \in Seq(Item)
    BY DEF TypePage
  <2>5. [file |-> None, named |-> TRUE] \in [file : Contents, named : BOOLEAN]
    OBVIOUS
  <2>6. value \in [file : Contents, named : BOOLEAN]
    OBVIOUS
  <2>7. shown \in [items : Seq(Item), value : [file : Contents, named : BOOLEAN]]
    OBVIOUS
  <2> HIDE DEF Contents, TypeOK, TypeValue
  <2>8. CASE UNCHANGED shown
    BY <2>7, <2>8
  <2>9. CASE shown' = [items |-> items, value |-> value]
    BY <2>4, <2>6, <2>9
  <2>10. CASE shown' = [items |-> <<>>, value |-> [file |-> None, named |-> TRUE]]
    BY <2>4, <2>5, <2>10
  <2> QED
    BY <2>3, <2>8, <2>9, <2>10
<1> QED
  BY <1>1, <1>2

LEMMA TypeNext == TypeOK /\ [Next]_vars => TypeOK'
  BY TypePageNext, TypeServerNext, TypeCleanerNext, TypeDeleterNext, TypeFormNext,
     TypeValueNext DEF TypeOK

-----------------------------------------------------------------------------
(***************************************************************************)
(* The inductive invariant: what the directory keeps, ...                  *)
(***************************************************************************)

\* A file that was uploaded stays until somebody deletes it or it is old, and its
\* metadata as long as its content, unless they are old.
FilesStay ==
  \A f \in Files :
    /\ server[f] \in {"metadata", "done"} =>
         disk[f] = "whole" \/ f \in revoked \/ <<"content", f>> \in old
    /\ server[f] = "done" =>
         f \in meta \/ <<"metadata", f>> \in old \/ disk[f] = "none"

\* The browser has asked for what the server does, and hears no more than was done.
AnswersAreTrue ==
  \A f \in Files : /\ server[f] = "new" => sending[f] = "none"
                   /\ sending[f] = "ok" => server[f] = "done"

\* The task unlinks old files only.
CleanersClearOld ==
  \A c \in Cleaners : /\ cleaner[c].stalled \subseteq old
                      /\ cleaner[c].pc = "unlink" => cleaner[c].at \in old

\* A DELETE unlinks what was asked for, the content first.
DeleterIsAsked ==
  LET h == deleter.handle
  IN deleter.pc # "idle" =>
       /\ h \in Files
       /\ h \in revoked
       /\ server[h] = "done"
       /\ IF deleter.pc = "second" THEN disk[h] = "none"
          ELSE <<"content", h>> \in deleter.paths

StoreInv == FilesStay /\ AnswersAreTrue /\ CleanersClearOld /\ DeleterIsAsked

(***************************************************************************)
(* ... the nodes of the page, ...                                          *)
(***************************************************************************)

\* The handle of an item is that of its file, and the server has given it.
HandleIsTrue(item, state) ==
  item.handle # None => item.handle = item.file /\ state[item.handle] = "done"

NodeIsTrue(item, state) ==
  /\ HandleIsTrue(item, state)
  /\ item.existing => item.handle = None
  /\ ~item.existing => item.file \in Files /\ state[item.file] # "new"

Waited(item, requests) ==
  item.existing \/ item.handle # None \/ requests[item.file] # "none"

PageInv ==
  /\ \A i \in 1..Len(items) : NodeIsTrue(items[i], server)
  /\ \A f \in Files : sending[f] # "none" => \A i, j \in NodesOf(f) : i = j
  /\ page = "shown" => \A i \in 1..Len(items) : Waited(items[i], sending)

(***************************************************************************)
(* ... and the form, which is still that of the page that was submitted.   *)
(***************************************************************************)
Uploaded == HandlesOf(shown.items)

AreDone(handles) == \A i \in DOMAIN handles : server[handles[i]] = "done"

ShownInv == \A i \in 1..Len(shown.items) : HandleIsTrue(shown.items[i], server)

PostedInv ==
  /\ form.pc = "idle" => form = NoForm
  /\ form.pc # "idle" => page = "posted" /\ value = shown.value
  /\ AreDone(form.handles) /\ AreDone(form.listed)
  /\ form.pc \in {"process", "metadata", "open"} =>
       form.handles = Uploaded /\ form.delete = Marked(shown.items) /\ form.opened = None
  /\ form.pc \in {"metadata", "open"} => ~form.delete /\ DOMAIN Uploaded # {}
  /\ form.pc = "open" =>
       LET h == First(Uploaded)
       IN form.named \/ <<"metadata", h>> \in old \/ disk[h] = "none"
  /\ form.pc = "validate" => form.delete = Marked(shown.items)
  /\ form.pc = "validate" /\ ~form.delete =>
       \/ DOMAIN Uploaded = {} /\ form.opened = None
       \/ /\ DOMAIN Uploaded # {}
          /\ form.opened = First(Uploaded)
          /\ form.named \/ <<"metadata", form.opened>> \in old

\* A form that has no file to delete keeps its handles; when it is shown again each
\* of them is still to be looked for, found, or that of a file that has gone.
IsToLook(h) == \E j \in DOMAIN form.handles : form.handles[j] = h
IsListed(h) == \E j \in 1..Len(form.listed) : form.listed[j] = h
IsKept(h) == IsToLook(h) \/ IsListed(h) \/ disk[h] # "whole"

KeptInv ==
  ~Marked(shown.items) =>
    /\ form.pc = "validate" => form.handles = Uploaded
    /\ form.pc = "list" => \A i \in DOMAIN Uploaded : IsKept(Uploaded[i])

IInv == TypeOK /\ StoreInv /\ PageInv /\ ShownInv /\ PostedInv /\ SavedIsShown

-----------------------------------------------------------------------------
(***************************************************************************)
(* What only grows.                                                        *)
(***************************************************************************)
LEMMA Growing ==
  ASSUME TypeOK, [Next]_vars
  PROVE  old \subseteq old' /\ revoked \subseteq revoked'
<1>1. old \subseteq old'
  <2>1. \A p \in Paths : GrowOld(p) => old \subseteq old'
    BY DEF GrowOld
  <2> QED
    BY <2>1, OldChanges
<1>2. revoked \subseteq revoked'
  BY RevokedChanges DEF DeleteFile
<1> QED
  BY <1>1, <1>2

LEMMA ServerGoesOn ==
  ASSUME TypeOK, [Next]_vars, NEW f \in Files
  PROVE  /\ server[f] = "done" => server'[f] = "done"
         /\ server[f] # "new" => server'[f] # "new"
  BY ServerChanges DEF TypeOK, TypeServer, AddFile, NoUserDir, MakeUserDir, WriteContent,
       WriteMetadata, UploadDies, Serve

\* What has gone does not come back.
LEMMA GoneStaysGone ==
  ASSUME TypeOK, [Next]_vars, NEW f \in Files, server[f] = "done", disk[f] = "none"
  PROVE  disk'[f] = "none"
<1> USE DEF TypeOK, TypeServer
<1>1. ASSUME NEW p, Unlink(p) PROVE disk'[f] = "none"
  BY <1>1 DEF Unlink
<1>2. ASSUME NEW g \in Files, WriteContent(g) \/ UploadDies(g) PROVE disk'[f] = "none"
  BY <1>2 DEF WriteContent, UploadDies, Serve
<1> QED
  BY <1>1, <1>2, DiskChanges DEF UnlinkContent, RemoveFile, LookUpMetadata, DeleteUnlinks,
       serverVars

\* A file that has gone is not written again.
LEMMA GoneIsNotWritten ==
  ASSUME TypeOK, [Next]_vars, NEW f \in Files, server[f] = "done", disk[f] # "whole"
  PROVE  disk'[f] # "whole"
<1> USE DEF TypeOK, TypeServer
<1>1. ASSUME NEW p, Unlink(p) PROVE disk'[f] # "whole"
  BY <1>1 DEF Unlink
<1>2. ASSUME NEW g \in Files, WriteContent(g) \/ UploadDies(g) PROVE disk'[f] # "whole"
  BY <1>2 DEF WriteContent, UploadDies, Serve
<1> QED
  BY <1>1, <1>2, DiskChanges DEF UnlinkContent, RemoveFile, LookUpMetadata, DeleteUnlinks,
       serverVars

-----------------------------------------------------------------------------
(***************************************************************************)
(* The directory.                                                          *)
(***************************************************************************)
LEMMA FilesStayNext ==
  ASSUME TypeOK, StoreInv, [Next]_vars
  PROVE  FilesStay'
<1> USE DEF TypeOK, TypeServer
<1> SUFFICES ASSUME NEW f \in Files
             PROVE  /\ server'[f] \in {"metadata", "done"} =>
                         disk'[f] = "whole" \/ f \in revoked' \/ <<"content", f>> \in old'
                    /\ server'[f] = "done" =>
                         f \in meta' \/ <<"metadata", f>> \in old' \/ disk'[f] = "none"
  BY DEF FilesStay
<1> DEFINE Goal == /\ server'[f] \in {"metadata", "done"} =>
                         disk'[f] = "whole" \/ f \in revoked' \/ <<"content", f>> \in old'
                   /\ server'[f] = "done" =>
                         f \in meta' \/ <<"metadata", f>> \in old' \/ disk'[f] = "none"
<1>1. /\ server[f] \in {"metadata", "done"} =>
            disk[f] = "whole" \/ f \in revoked' \/ <<"content", f>> \in old'
      /\ server[f] = "done" =>
            f \in meta \/ <<"metadata", f>> \in old' \/ disk[f] = "none"
  BY Growing DEF StoreInv, FilesStay
<1>2. ASSUME NEW g \in Files, AddFile(g) PROVE Goal
  BY <1>1, <1>2 DEF AddFile
<1>3. ASSUME NEW g \in Files, NoUserDir(g) PROVE Goal
  BY <1>1, <1>3 DEF NoUserDir, Serve
<1>4. ASSUME NEW g \in Files, MakeUserDir(g) PROVE Goal
  BY <1>1, <1>4 DEF MakeUserDir, Serve
<1>5. ASSUME NEW g \in Files, WriteContent(g) PROVE Goal
  BY <1>1, <1>5 DEF WriteContent, Serve
<1>6. ASSUME NEW g \in Files, WriteMetadata(g) PROVE Goal
  BY <1>1, <1>6 DEF WriteMetadata, Serve
<1>7. ASSUME NEW g \in Files, UploadDies(g) PROVE Goal
  BY <1>1, <1>7 DEF UploadDies, Serve
<1>8. ASSUME NEW c \in Cleaners, UnlinkContent(c) PROVE Goal
  <2>1. cleaner[c].at \in old'
    BY <1>8, Growing DEF UnlinkContent, StoreInv, CleanersClearOld
  <2>2. Unlink(cleaner[c].at) /\ UNCHANGED server
    BY <1>8 DEF UnlinkContent
  <2>3. cleaner[c].at \in Paths
    BY <2>1, TypeNext
  <2> QED
    BY <1>1, <2>1, <2>2, <2>3 DEF Unlink, Paths
<1>9. CASE RemoveFile
  <2>1. CASE UNCHANGED <<disk, meta>>
    BY <1>1, <1>9, <2>1 DEF RemoveFile, LookUpMetadata, DeleteUnlinks, serverVars
  <2>2. CASE deleter.pc = "first" /\ UNCHANGED server /\ Unlink(<<"content", deleter.handle>>)
    BY <1>1, <2>2, Growing DEF Unlink, StoreInv, DeleterIsAsked
  <2>3. CASE deleter.pc = "second" /\ UNCHANGED server /\ Unlink(<<"metadata", deleter.handle>>)
    BY <1>1, <2>3 DEF Unlink, StoreInv, DeleterIsAsked
  <2> QED
    BY <1>9, <2>1, <2>2, <2>3 DEF RemoveFile, LookUpMetadata, DeleteUnlinks, serverVars
<1>10. CASE UNCHANGED <<server, disk, meta>>
  BY <1>1, <1>10
<1> QED
  BY <1>2, <1>3, <1>4, <1>5, <1>6, <1>7, <1>8, <1>9, <1>10, StoreChanges

LEMMA AnswersAreTrueNext ==
  ASSUME TypeOK, StoreInv, [Next]_vars
  PROVE  AnswersAreTrue'
<1> USE DEF TypeOK, TypeServer, TypePage, StoreInv, AnswersAreTrue
<1>1. ASSUME NEW g \in Files, AddFile(g) PROVE AnswersAreTrue'
  BY <1>1 DEF AddFile
<1>2. ASSUME NEW g \in Files, NoUserDir(g) PROVE AnswersAreTrue'
  BY <1>2 DEF NoUserDir, Serve, pageVars
<1>3. ASSUME NEW g \in Files, MakeUserDir(g) PROVE AnswersAreTrue'
  BY <1>3 DEF MakeUserDir, Serve, Answer
<1>4. ASSUME NEW g \in Files, WriteContent(g) PROVE AnswersAreTrue'
  BY <1>4 DEF WriteContent, Serve, pageVars
<1>5. ASSUME NEW g \in Files, WriteMetadata(g) PROVE AnswersAreTrue'
  BY <1>5 DEF WriteMetadata, Serve, Answer
<1>6. ASSUME NEW g \in Files, UploadDies(g) PROVE AnswersAreTrue'
  BY <1>6 DEF UploadDies, Serve, Answer
<1>7. ASSUME NEW g \in Files, OnFileComplete(g) \/ LoseConnection(g) PROVE AnswersAreTrue'
  BY <1>7 DEF OnFileComplete, LoseConnection, serverVars
<1>8. ASSUME NEW how \in {"click", "enter"}, Submit(how) PROVE AnswersAreTrue'
  BY <1>8 DEF Submit, NoUploads, serverVars
<1>9. CASE ShowForm
  BY <1>9 DEF ShowForm, ShowPage, NoUploads, serverVars
<1>10. CASE UNCHANGED <<server, sending>>
  BY <1>10
<1> QED
  BY <1>1, <1>2, <1>3, <1>4, <1>5, <1>6, <1>7, <1>8, <1>9, <1>10, AnswersChange

LEMMA CleanersClearOldNext ==
  ASSUME TypeOK, StoreInv, [Next]_vars
  PROVE  CleanersClearOld'
<1> SUFFICES ASSUME NEW c \in Cleaners
             PROVE  /\ cleaner'[c].stalled \subseteq old'
                    /\ cleaner'[c].pc = "unlink" => cleaner'[c].at \in old'
  BY DEF CleanersClearOld
<1> DEFINE Goal == /\ cleaner'[c].stalled \subseteq old'
                   /\ cleaner'[c].pc = "unlink" => cleaner'[c].at \in old'
<1>1. /\ cleaner[c].stalled \subseteq old'
      /\ cleaner[c].pc = "unlink" => cleaner[c].at \in old'
  BY Growing DEF StoreInv, CleanersClearOld
<1>2. cleaner[c] \in [pc : {"idle", "next", "unlink"}, stalled : SUBSET Paths,
                     todo : SUBSET Paths, at : Paths \cup {None}]
      /\ cleaner = [d \in Cleaners |-> cleaner[d]]
  BY DEF TypeOK, TypeCleaner
<1>3. ASSUME NEW d \in Cleaners, StartClearing(d) PROVE Goal
  BY <1>1, <1>2, <1>3 DEF StartClearing, serverVars
<1>4. ASSUME NEW d \in Cleaners, NEW p \in Paths, ClearNext(d, p) PROVE Goal
  BY <1>1, <1>2, <1>4 DEF ClearNext, Left
<1>5. ASSUME NEW d \in Cleaners, NEW p \in Paths, StatRaises(d, p) PROVE Goal
  BY <1>1, <1>2, <1>5 DEF StatRaises, Idle
<1>6. ASSUME NEW d \in Cleaners, UnlinkContent(d) PROVE Goal
  BY <1>1, <1>2, <1>6 DEF UnlinkContent, Idle
<1>7. ASSUME NEW d \in Cleaners, EndClearing(d) PROVE Goal
  BY <1>1, <1>2, <1>7 DEF EndClearing, Idle
<1>8. CASE UNCHANGED cleaner
  BY <1>1, <1>8
<1> QED
  BY <1>3, <1>4, <1>5, <1>6, <1>7, <1>8, CleanerChanges

LEMMA DeleterIsAskedNext ==
  ASSUME TypeOK, StoreInv, [Next]_vars
  PROVE  DeleterIsAsked'
<1> USE DEF TypeOK, TypeDeleter, TypeServer, StoreInv, DeleterIsAsked
<1>1. ASSUME NEW f \in Files, DeleteFile(f) PROVE DeleterIsAsked'
  BY <1>1 DEF DeleteFile, serverVars
<1>2. CASE LookUpMetadata
  BY <1>2 DEF LookUpMetadata, serverVars
<1>3. CASE DeleteUnlinks("first", "content", "second")
  BY <1>3 DEF DeleteUnlinks, Unlink
<1>4. CASE DeleteUnlinks("second", "metadata", "idle")
  BY <1>4 DEF DeleteUnlinks, NotDeleting
<1>5. CASE UNCHANGED deleter
  BY <1>5, Growing, ServerGoesOn, GoneStaysGone
<1> QED
  BY <1>1, <1>2, <1>3, <1>4, <1>5, DeleterChanges DEF RemoveFile

LEMMA StoreNext == TypeOK /\ StoreInv /\ [Next]_vars => StoreInv'
  BY FilesStayNext, AnswersAreTrueNext, CleanersClearOldNext, DeleterIsAskedNext
     DEF StoreInv

-----------------------------------------------------------------------------
(***************************************************************************)
(* The nodes of the page.                                                  *)
(***************************************************************************)

\* What is true of a node stays so.
LEMMA NodeStaysTrue ==
  ASSUME TypeOK, [Next]_vars, NEW item \in Item
  PROVE  /\ HandleIsTrue(item, server) => HandleIsTrue(item, server')
         /\ NodeIsTrue(item, server) => NodeIsTrue(item, server')
<1>1. item.handle \in Files \cup {None}
  BY DEF Item
<1>2. HandleIsTrue(item, server) => HandleIsTrue(item, server')
  BY <1>1, ServerGoesOn DEF HandleIsTrue
<1> QED
  BY <1>2, ServerGoesOn DEF NodeIsTrue

LEMMA NodesStayTrue ==
  ASSUME TypeOK, PageInv, [Next]_vars
  PROVE  \A i \in 1..Len(items) : items[i] \in Item /\ NodeIsTrue(items[i], server')
  BY NodeStaysTrue DEF TypeOK, TypePage, PageInv

\* Nodes of a page that the server shows are true.
LEMMA RenderedNodes ==
  ASSUME TypeOK, PostedInv, [Next]_vars, ShowForm
  PROVE  \A i \in 1..Len(items') : NodeIsTrue(items'[i], server') /\ Waited(items'[i], sending')
<1> USE UploadsAssumption
<1> SUFFICES ASSUME NEW i \in 1..Len(items')
             PROVE  NodeIsTrue(items'[i], server') /\ Waited(items'[i], sending')
  OBVIOUS
<1>1. form.listed \in Seq(Files) /\ items' = Rendered(form.listed)
  BY DEF ShowForm, ShowPage, TypeOK, TypeForm
<1>2. \/ items'[i] = ExistingItem
      \/ \E j \in 1..Len(form.listed) : items'[i] = UploadedItem(form.listed[j])
  BY <1>1, RenderedItems DEF TypeOK, TypeValue
<1>3. CASE items'[i] = ExistingItem
  BY <1>3 DEF ExistingItem, NodeIsTrue, HandleIsTrue, Waited
<1>4. ASSUME NEW j \in 1..Len(form.listed), items'[i] = UploadedItem(form.listed[j])
      PROVE  NodeIsTrue(items'[i], server') /\ Waited(items'[i], sending')
  <2> DEFINE h == form.listed[j]
  <2>1. h \in Files /\ h # None
    BY <1>1
  <2>2. server[h] = "done"
    BY <1>1 DEF PostedInv, AreDone
  <2>3. server'[h] = "done"
    BY <2>1, <2>2, ServerGoesOn
  <2> HIDE DEF h
  <2>4. items'[i] = [file |-> h, handle |-> h, existing |-> FALSE, marked |-> FALSE]
    BY <1>4 DEF UploadedItem, h
  <2> QED
    BY <2>1, <2>3, <2>4 DEF NodeIsTrue, HandleIsTrue, Waited
<1> QED
  BY <1>2, <1>3, <1>4

\* A click on the button of a file changes no more than its mark.
LEMMA MarkedNodes ==
  ASSUME items \in Seq(Item), OnExistingNodeChange
  PROVE  /\ Len(items') = Len(items)
         /\ \A i \in 1..Len(items) : /\ items'[i].handle = items[i].handle
                                     /\ items'[i].existing = items[i].existing
                                     /\ items'[i].file = items[i].file
<1>1. PICK k \in 1..Len(items) :
        items' = [items EXCEPT ![k].marked = ~items[k].marked] \/ items' = items
  BY DEF OnExistingNodeChange
<1>2. CASE items' = [items EXCEPT ![k].marked = ~items[k].marked]
  BY <1>2 DEF Item
<1>3. CASE items' = items
  BY <1>3
<1> QED
  BY <1>1, <1>2, <1>3

LEMMA NodesAreTrueNext ==
  ASSUME TypeOK, StoreInv, PageInv, PostedInv, [Next]_vars
  PROVE  \A i \in 1..Len(items') : NodeIsTrue(items'[i], server')
<1> USE UploadsAssumption
<1> DEFINE Goal == \A i \in 1..Len(items') : NodeIsTrue(items'[i], server')
<1>1. items \in Seq(Item)
  BY DEF TypeOK, TypePage
<1>2. ASSUME NEW f \in Files, WithoutNode(f) = items' PROVE Goal
  BY <1>1, <1>2, NodesStayTrue, WithoutNodeIsPart
<1>3. CASE OnExistingNodeChange
  <2>1. Len(items') = Len(items)
        /\ \A i \in 1..Len(items) : /\ items'[i].handle = items[i].handle
                                    /\ items'[i].existing = items[i].existing
                                    /\ items'[i].file = items[i].file
    BY <1>1, <1>3, MarkedNodes
  <2> QED
    BY <2>1, NodesStayTrue DEF NodeIsTrue, HandleIsTrue
<1>4. ASSUME NEW f \in Files, AddFile(f) PROVE Goal
  <2> DEFINE kept == IF field.multiple THEN items ELSE <<>>
  <2>1. kept \in Seq(Item) /\ \A i \in 1..Len(kept) : NodeIsTrue(kept[i], server')
    BY <1>1, NodesStayTrue
  <2>2. items' = Append(kept, NewItem(f)) /\ server' = [server EXCEPT ![f] = "sent"]
    BY <1>4 DEF AddFile
  <2>3. /\ NewItem(f) \in Item
        /\ NewItem(f).file = f /\ NewItem(f).handle = None /\ ~NewItem(f).existing
    BY DEF NewItem, UploadedItem, Item
  <2>4. server'[f] # "new"
    BY <2>2 DEF TypeOK, TypeServer
  <2>5. NodeIsTrue(NewItem(f), server')
    BY <2>3, <2>4 DEF NodeIsTrue, HandleIsTrue
  <2> HIDE DEF kept
  <2>6. \A i \in 1..Len(items') : IF i = Len(items') THEN items'[i] = NewItem(f)
                                  ELSE i \in 1..Len(kept) /\ items'[i] = kept[i]
    BY <2>1, <2>2, <2>3
  <2> QED
    BY <2>1, <2>5, <2>6
<1>5. ASSUME NEW f \in Files, OnFileComplete(f) PROVE Goal
  <2>1. CASE sending[f] = "error"
    BY <1>2, <1>5, <2>1 DEF OnFileComplete
  <2>2. CASE sending[f] # "error"
    <3>1. server[f] = "done"
      BY <1>5, <2>2 DEF OnFileComplete, StoreInv, AnswersAreTrue
    <3>2. server'[f] = "done"
      BY <3>1, ServerGoesOn
    <3>3. items' = [i \in 1..Len(items) |-> IF i \in NodesOf(f)
                      THEN [items[i] EXCEPT !.handle = f] ELSE items[i]]
      BY <1>5, <2>2 DEF OnFileComplete, ElementForFile
    <3>4. Len(items') = Len(items)
      BY <1>1, <3>3
    <3>5. ASSUME NEW i \in 1..Len(items), i \in NodesOf(f)
          PROVE  NodeIsTrue(items'[i], server')
      <4>1. items[i] \in Item /\ items[i].file = f /\ ~items[i].existing
        BY <1>1, <3>5 DEF NodesOf, IsNodeOf
      <4>2. items'[i] = [items[i] EXCEPT !.handle = f]
        BY <3>3, <3>5
      <4>3. items'[i].handle = f /\ items'[i].file = f /\ ~items'[i].existing
        BY <4>1, <4>2 DEF Item
      <4> QED
        BY <3>2, <4>3 DEF NodeIsTrue, HandleIsTrue
    <3>6. ASSUME NEW i \in 1..Len(items), i \notin NodesOf(f)
          PROVE  NodeIsTrue(items'[i], server')
      BY <3>3, <3>6, NodesStayTrue
    <3> QED
      BY <3>4, <3>5, <3>6
  <2> QED
    BY <2>1, <2>2
<1>6. ASSUME NEW f \in Files, RemoveFileNode(f) PROVE Goal
  BY <1>2, <1>6 DEF RemoveFileNode
<1>7. CASE ShowForm
  BY <1>7, RenderedNodes
<1>8. CASE UNCHANGED items
  BY <1>8, NodesStayTrue
<1> QED
  BY <1>3, <1>4, <1>5, <1>6, <1>7, <1>8, ItemsChange

\* A request is for one node at most.
LEMMA OneNodeNext ==
  ASSUME TypeOK, StoreInv, PageInv, [Next]_vars, NEW f \in Files, sending'[f] # "none"
  PROVE  \A i, j \in NodesOf(f)' : i = j
<1> DEFINE Goal == \A i, j \in NodesOf(f)' : i = j
<1>1. items \in Seq(Item) /\ sending \in [Files -> {"none", "sent", "ok", "error"}]
  BY DEF TypeOK, TypePage
<1>2. \A i, j \in NodesOf(f) : sending[f] # "none" => i = j
  BY DEF PageInv
<1>3. ASSUME sending[f] # "none", Len(items') = Len(items),
             \A i \in 1..Len(items) : /\ items'[i].existing = items[i].existing
                                      /\ items'[i].file = items[i].file
      PROVE  Goal
  BY <1>2, <1>3 DEF NodesOf, IsNodeOf
<1>4. ASSUME NEW g \in Files, sending[f] # "none", items' = WithoutNode(g) PROVE Goal
  <2>1. CASE NodesOf(g) = {}
    BY <1>2, <1>4, <2>1 DEF WithoutNode, NodesOf
  <2>2. CASE NodesOf(g) # {}
    <3> DEFINE n == CHOOSE i \in NodesOf(g) : TRUE
    <3>1. n \in 1..Len(items)
      BY <2>2 DEF NodesOf
    <3>2. items' = SubSeq(items, 1, n - 1) \o SubSeq(items, n + 1, Len(items))
      BY <1>4, <2>2 DEF WithoutNode
    <3> HIDE DEF n
    <3>3. /\ Len(items') = Len(items) - 1
          /\ \A i \in 1..Len(items') : items'[i] = IF i < n THEN items[i] ELSE items[i + 1]
      BY <1>1, <3>1, <3>2, WithoutOne, Zenon
    <3> DEFINE At(i) == IF i < n THEN i ELSE i + 1
    <3>4. ASSUME NEW i \in NodesOf(f)' PROVE At(i) \in NodesOf(f)
      <4>1. i \in 1..Len(items') /\ IsNodeOf(items'[i], f)
        BY DEF NodesOf
      <4>2. At(i) \in 1..Len(items) /\ items'[i] = items[At(i)]
        BY <1>1, <3>1, <3>3, <4>1
      <4> QED
        BY <4>1, <4>2 DEF NodesOf
    <3>5. ASSUME NEW i \in NodesOf(f)', NEW j \in NodesOf(f)' PROVE i = j
      <4>1. At(i) = At(j)
        BY <1>2, <1>4, <3>4
      <4>2. i \in Int /\ j \in Int /\ n \in Int
        BY <1>1, <3>1 DEF NodesOf
      <4> QED
        BY <4>1, <4>2
    <3> QED
      BY <3>5
  <2> QED
    BY <2>1, <2>2
<1>5. CASE OnExistingNodeChange
  <2>1. Len(items') = Len(items)
        /\ \A i \in 1..Len(items) : /\ items'[i].existing = items[i].existing
                                    /\ items'[i].file = items[i].file
    BY <1>1, <1>5, MarkedNodes
  <2>2. UNCHANGED sending
    BY <1>5 DEF OnExistingNodeChange
  <2> QED
    BY <1>3, <2>1, <2>2
<1>6. ASSUME NEW g \in Files, AddFile(g) PROVE Goal
  <2> DEFINE kept == IF field.multiple THEN items ELSE <<>>
  <2>1. kept \in Seq(Item) /\ \A i \in 1..Len(kept) : i \in 1..Len(items) /\ kept[i] = items[i]
    BY <1>1
  <2>2. items' = Append(kept, NewItem(g)) /\ server[g] = "new"
        /\ sending' = [sending EXCEPT ![g] = "sent"]
    BY <1>6 DEF AddFile
  <2>3. NewItem(g) \in Item /\ NewItem(g).file = g
    BY DEF NewItem, UploadedItem, Item
  <2> HIDE DEF kept
  <2>4. \A i \in 1..Len(items') : IF i = Len(items') THEN items'[i] = NewItem(g)
                                  ELSE i \in 1..Len(kept) /\ items'[i] = kept[i]
    BY <2>1, <2>2, <2>3
  <2>5. CASE f = g
    <3>1. \A i \in 1..Len(items) : ~IsNodeOf(items[i], f)
      BY <2>2, <2>5 DEF PageInv, NodeIsTrue, IsNodeOf
    <3> QED
      BY <2>1, <2>4, <3>1 DEF NodesOf
  <2>6. CASE f # g
    <3>1. sending[f] # "none"
      BY <1>1, <2>2, <2>6
    <3>2. \A i \in NodesOf(f)' : i \in NodesOf(f)
      BY <2>1, <2>3, <2>4, <2>6 DEF NodesOf, IsNodeOf
    <3> QED
      BY <1>2, <3>1, <3>2
  <2> QED
    BY <2>5, <2>6
<1>7. ASSUME NEW g \in Files, OnFileComplete(g) PROVE Goal
  <2>1. sending[f] # "none"
    BY <1>1, <1>7 DEF OnFileComplete
  <2>2. CASE sending[g] = "error"
    BY <1>4, <1>7, <2>1, <2>2 DEF OnFileComplete
  <2>3. CASE sending[g] # "error"
    <3>1. items' = [i \in 1..Len(items) |-> IF i \in NodesOf(g)
                      THEN [items[i] EXCEPT !.handle = g] ELSE items[i]]
      BY <1>7, <2>3 DEF OnFileComplete, ElementForFile
    <3>2. Len(items') = Len(items)
      BY <1>1, <3>1
    <3>3. ASSUME NEW i \in 1..Len(items)
          PROVE  items'[i].existing = items[i].existing /\ items'[i].file = items[i].file
      <4>1. items[i] \in Item
        BY <1>1
      <4> QED
        BY <3>1, <4>1 DEF Item
    <3> QED
      BY <1>3, <2>1, <3>2, <3>3
  <2> QED
    BY <2>2, <2>3
<1>8. ASSUME NEW g \in Files, RemoveFileNode(g) PROVE Goal
  BY <1>4, <1>8 DEF RemoveFileNode
<1>9. ASSUME NEW how \in {"click", "enter"}, Submit(how) PROVE Goal
  BY <1>1, <1>3, <1>9 DEF Submit, NoUploads
<1>10. CASE ShowForm
  BY <1>10 DEF ShowForm, ShowPage, NoUploads
<1>11. ASSUME UNCHANGED items, sending[f] # "none" PROVE Goal
  BY <1>3, <1>11
<1>12. ASSUME NEW g \in Files,
              LoseConnection(g) \/ MakeUserDir(g) \/ WriteMetadata(g) \/ UploadDies(g)
       PROVE  Goal
  <2>1. UNCHANGED items /\ sending[f] # "none"
    BY <1>1, <1>12 DEF LoseConnection, MakeUserDir, WriteMetadata, UploadDies, Answer
  <2> QED
    BY <1>11, <2>1
<1>13. CASE OpenStream \/ PopulateObj \/ StatFails \/ UNCHANGED <<page, items, sending>>
  BY <1>11, <1>13 DEF OpenStream, PopulateObj, StatFails
<1> QED
  BY <1>5, <1>6, <1>7, <1>8, <1>9, <1>10, <1>12, <1>13, NodesChange

\* A node of a page is the object's file, or has a handle, or is waited for.
LEMMA WaitedNext ==
  ASSUME TypeOK, StoreInv, PageInv, PostedInv, [Next]_vars, page' = "shown"
  PROVE  \A i \in 1..Len(items') : Waited(items'[i], sending')
<1> USE UploadsAssumption
<1> DEFINE Goal == \A i \in 1..Len(items') : Waited(items'[i], sending')
<1>1. /\ items \in Seq(Item)
      /\ sending \in [Files -> {"none", "sent", "ok", "error"}]
      /\ \A i \in 1..Len(items) : items[i] \in Item
  BY DEF TypeOK, TypePage
<1>2. page = "shown" => \A i \in 1..Len(items) : Waited(items[i], sending)
  BY DEF PageInv
<1>3. CASE OnExistingNodeChange
  <2>1. Len(items') = Len(items)
        /\ \A i \in 1..Len(items) : /\ items'[i].handle = items[i].handle
                                    /\ items'[i].existing = items[i].existing
                                    /\ items'[i].file = items[i].file
    BY <1>1, <1>3, MarkedNodes
  <2>2. page = "shown" /\ UNCHANGED sending
    BY <1>3 DEF OnExistingNodeChange
  <2> QED
    BY <1>2, <2>1, <2>2 DEF Waited
<1>4. ASSUME NEW f \in Files, AddFile(f) PROVE Goal
  <2> DEFINE kept == IF field.multiple THEN items ELSE <<>>
  <2>1. kept \in Seq(Item) /\ \A i \in 1..Len(kept) : Waited(kept[i], sending)
    BY <1>1, <1>2, <1>4 DEF AddFile
  <2>2. items' = Append(kept, NewItem(f)) /\ sending' = [sending EXCEPT ![f] = "sent"]
    BY <1>4 DEF AddFile
  <2>3. NewItem(f) \in Item /\ NewItem(f).file = f
    BY DEF NewItem, UploadedItem, Item
  <2>4. Waited(NewItem(f), sending')
    BY <1>1, <2>2, <2>3 DEF Waited
  <2>5. \A g \in Files : sending[g] # "none" => sending'[g] # "none"
    BY <1>1, <2>2
  <2>6. \A i \in 1..Len(kept) : kept[i].existing \/ kept[i].file \in Files
    BY <1>1 DEF PageInv, NodeIsTrue
  <2> HIDE DEF kept
  <2>7. \A i \in 1..Len(kept) : Waited(kept[i], sending')
    BY <2>1, <2>5, <2>6 DEF Waited
  <2>8. \A i \in 1..Len(items') : IF i = Len(items') THEN items'[i] = NewItem(f)
                                  ELSE i \in 1..Len(kept) /\ items'[i] = kept[i]
    BY <2>1, <2>2, <2>3
  <2> QED
    BY <2>4, <2>7, <2>8
<1>5. ASSUME NEW f \in Files, OnFileComplete(f) PROVE Goal
  <2>1. /\ \A i \in 1..Len(items) : Waited(items[i], sending)
        /\ sending' = [sending EXCEPT ![f] = "none"]
        /\ sending[f] # "none"
    BY <1>1, <1>2, <1>5 DEF OnFileComplete
  <2>2. ASSUME NEW i \in 1..Len(items), ~IsNodeOf(items[i], f)
        PROVE  Waited(items[i], sending')
    BY <1>1, <2>1, <2>2 DEF Waited, IsNodeOf
  <2>3. CASE sending[f] = "error"
    <3>1. items' = WithoutNode(f)
      BY <1>5, <2>3 DEF OnFileComplete
    <3>2. \A i, j \in NodesOf(f) : i = j
      BY <2>1 DEF PageInv
    <3>3. ASSUME NEW i \in 1..Len(items') PROVE Waited(items'[i], sending')
      <4>1. ~IsNodeOf(items'[i], f)
        BY <1>1, <3>1, <3>2, WithoutNodeIsWithout
      <4>2. PICK j \in 1..Len(items) : items'[i] = items[j]
        BY <1>1, <3>1, WithoutNodeIsPart
      <4> QED
        BY <2>2, <4>1, <4>2
    <3> QED
      BY <3>3
  <2>4. CASE sending[f] # "error"
    <3>1. items' = [i \in 1..Len(items) |-> IF i \in NodesOf(f)
                      THEN [items[i] EXCEPT !.handle = f] ELSE items[i]]
      BY <1>5, <2>4 DEF OnFileComplete, ElementForFile
    <3>2. Len(items') = Len(items)
      BY <1>1, <3>1
    <3>3. ASSUME NEW i \in 1..Len(items) PROVE Waited(items'[i], sending')
      <4>1. CASE i \in NodesOf(f)
        <5>1. items'[i] = [items[i] EXCEPT !.handle = f] /\ items[i] \in Item
          BY <1>1, <3>1, <4>1
        <5>2. items'[i].handle = f
          BY <5>1 DEF Item
        <5> QED
          BY <5>2 DEF Waited
      <4>2. CASE i \notin NodesOf(f)
        BY <2>2, <3>1, <4>2 DEF NodesOf
      <4> QED
        BY <4>1, <4>2
    <3> QED
      BY <3>2, <3>3
  <2> QED
    BY <2>3, <2>4
<1>6. ASSUME NEW f \in Files, RemoveFileNode(f) PROVE Goal
  BY <1>1, <1>2, <1>6, WithoutNodeIsPart DEF RemoveFileNode
<1>7. ASSUME NEW how \in {"click", "enter"}, Submit(how) PROVE Goal
  <2>1. UNCHANGED <<page, items, sending>>
    BY <1>7 DEF Submit
  <2> QED
    BY <1>2, <2>1
<1>8. CASE ShowForm
  BY <1>8, RenderedNodes
<1>9. ASSUME NEW f \in Files,
             LoseConnection(f) \/ MakeUserDir(f) \/ WriteMetadata(f) \/ UploadDies(f)
      PROVE  Goal
  <2>1. UNCHANGED <<page, items>>
    BY <1>9 DEF LoseConnection, MakeUserDir, WriteMetadata, UploadDies
  <2>2. \A g \in Files : sending[g] # "none" => sending'[g] # "none"
    BY <1>1, <1>9 DEF LoseConnection, MakeUserDir, WriteMetadata, UploadDies, Answer
  <2>3. \A i \in 1..Len(items) : items[i].existing \/ items[i].file \in Files
    BY DEF PageInv, NodeIsTrue
  <2> QED
    BY <1>2, <2>1, <2>2, <2>3 DEF Waited
<1>10. CASE UNCHANGED <<page, items, sending>>
  BY <1>2, <1>10
<1>11. ~(OpenStream \/ PopulateObj \/ StatFails) \/ UNCHANGED <<page, items, sending>>
  BY DEF OpenStream, PopulateObj, StatFails
<1> QED
  BY <1>3, <1>4, <1>5, <1>6, <1>7, <1>8, <1>9, <1>10, <1>11, NodesChange

LEMMA PageNext ==
  TypeOK /\ StoreInv /\ PageInv /\ PostedInv /\ [Next]_vars => PageInv'
  BY NodesAreTrueNext, OneNodeNext, WaitedNext DEF PageInv

-----------------------------------------------------------------------------
(***************************************************************************)
(* The form.                                                               *)
(***************************************************************************)
LEMMA ShownNext ==
  ASSUME TypeOK, PageInv, ShownInv, [Next]_vars
  PROVE  ShownInv'
<1> USE UploadsAssumption
<1>1. shown.items \in Seq(Item) /\ items \in Seq(Item)
  BY DEF TypeOK, TypeValue, TypePage
<1>2. CASE UNCHANGED shown
  BY <1>1, <1>2, NodeStaysTrue DEF ShownInv
<1>3. ASSUME NEW how \in {"click", "enter"}, Submit(how), ~Blocked PROVE ShownInv'
  <2>1. shown' = [items |-> items, value |-> value]
    BY <1>3 DEF Submit
  <2>2. \A i \in 1..Len(items) : HandleIsTrue(items[i], server')
    BY NodesStayTrue DEF NodeIsTrue
  <2> QED
    BY <2>1, <2>2 DEF ShownInv
<1>4. \A how : Submit(how) => ~Blocked \/ UNCHANGED shown
  BY DEF Submit
<1>5. CASE ShowForm
  <2>1. shown'.items = <<>>
    BY <1>5 DEF ShowForm, ShowPage, NoSubmission
  <2> QED
    BY <2>1 DEF ShownInv
<1> QED
  BY <1>2, <1>3, <1>4, <1>5, ShownChanges

\* The handles of a page are known, and so is the first.
LEMMA UploadedHandles ==
  ASSUME TypeOK, ShownInv
  PROVE  /\ IsHandles(Uploaded) /\ AreDone(Uploaded)
         /\ DOMAIN Uploaded # {} =>
              LET i == FirstAt(Uploaded)
              IN /\ i \in 1..Len(shown.items)
                 /\ shown.items[i].handle # None
                 /\ First(Uploaded) = shown.items[i].file
                 /\ First(Uploaded) \in Files
                 /\ server[First(Uploaded)] = "done"
                 /\ \A j \in 1..Len(shown.items) : shown.items[j].handle # None => i <= j
<1>1. shown.items \in Seq(Item)
  BY DEF TypeOK, TypeValue
<1>2. /\ IsHandles(Uploaded)
      /\ DOMAIN Uploaded = {i \in 1..Len(shown.items) : shown.items[i].handle # None}
      /\ \A i \in DOMAIN Uploaded : Uploaded[i] = shown.items[i].handle
  BY <1>1, HandlesOfType DEF Uploaded
<1>3. AreDone(Uploaded)
  BY <1>2 DEF AreDone, ShownInv, HandleIsTrue
<1>4. ASSUME DOMAIN Uploaded # {}
      PROVE  LET i == FirstAt(Uploaded)
             IN /\ i \in 1..Len(shown.items)
                /\ shown.items[i].handle # None
                /\ First(Uploaded) = shown.items[i].file
                /\ First(Uploaded) \in Files
                /\ server[First(Uploaded)] = "done"
                /\ \A j \in 1..Len(shown.items) : shown.items[j].handle # None => i <= j
  <2>1. /\ FirstAt(Uploaded) \in DOMAIN Uploaded
        /\ \A j \in DOMAIN Uploaded : FirstAt(Uploaded) <= j
        /\ First(Uploaded) \in Files
    BY <1>2, <1>4, FirstHandle
  <2>2. First(Uploaded) = Uploaded[FirstAt(Uploaded)]
    BY DEF First
  <2> QED
    BY <1>2, <1>3, <2>1, <2>2 DEF AreDone, ShownInv, HandleIsTrue
<1> QED
  BY <1>2, <1>3, <1>4

LEMMA DoneStaysDone ==
  ASSUME TypeOK, [Next]_vars, NEW h, AreDone(h), \A i \in DOMAIN h : h[i] \in Files
  PROVE  \A i \in DOMAIN h : server'[h[i]] = "done"
  BY ServerGoesOn DEF AreDone

LEMMA PostedNext ==
  ASSUME TypeOK, StoreInv, PageInv, ShownInv, PostedInv, [Next]_vars
  PROVE  PostedInv'
<1> USE UploadsAssumption
<1> DEFINE h == First(Uploaded)
           Read == /\ form.pc \in {"process", "metadata", "open"}
                   /\ form.handles = Uploaded
                   /\ form.delete = Marked(shown.items)
                   /\ form.opened = None
                   /\ form.pc \in {"metadata", "open"} => ~form.delete /\ DOMAIN Uploaded # {}
           Named == form.named \/ <<"metadata", h>> \in old' \/ disk'[h] = "none"
           Kept == page = "posted" /\ value = shown.value
           Whole(handles) == \A i \in DOMAIN handles : server'[handles[i]] = "done"
<1>1. /\ IsHandles(form.handles) /\ form.listed \in Seq(Files)
      /\ DOMAIN form = {"pc", "handles", "delete", "named", "opened", "listed"}
      /\ form.delete \in BOOLEAN /\ form.named \in BOOLEAN
  BY DEF TypeOK, TypeForm
<1>2. Whole(form.handles) /\ Whole(form.listed)
  <2>1. \A i \in DOMAIN form.handles : form.handles[i] \in Files
    BY <1>1 DEF IsHandles
  <2>2. \A i \in DOMAIN form.listed : form.listed[i] \in Files
    BY <1>1
  <2> QED
    BY <2>1, <2>2, DoneStaysDone, Zenon DEF PostedInv
<1>3. IsHandles(Uploaded) /\ Whole(Uploaded)
  <2>1. IsHandles(Uploaded) /\ AreDone(Uploaded)
    BY UploadedHandles
  <2> QED
    BY <2>1, DoneStaysDone, Zenon DEF IsHandles
<1>4. form.pc \in {"process", "metadata", "open"} => Read
  BY DEF PostedInv
<1>5. form.pc # "idle" => Kept
  BY DEF PostedInv
<1>6. form.pc = "open" => Named
  <2>1. form.pc = "open" => h \in Files /\ server[h] = "done"
    BY <1>4, UploadedHandles
  <2> QED
    BY <2>1, Growing, GoneStaysGone DEF PostedInv
<1>7. UNCHANGED shown => /\ Uploaded' = Uploaded /\ First(Uploaded)' = h
                         /\ Marked(shown.items)' = Marked(shown.items)
  BY DEF Uploaded, HandlesOf, First, FirstAt, Marked
<1>8. /\ NoForm.pc = "idle" /\ NoForm.handles = <<>> /\ NoForm.listed = <<>>
      /\ NoForm.opened = None
  BY DEF NoForm
<1>9. CASE UNCHANGED <<form, page, value, shown>>
  BY <1>2, <1>6, <1>7, <1>9, Growing DEF PostedInv, AreDone
<1>10. ASSUME NEW how \in {"click", "enter"}, Submit(how), ~Blocked PROVE PostedInv'
  <2>1. /\ page = "shown" /\ page' = "posted" /\ UNCHANGED value
        /\ form' = [form EXCEPT !.pc = "process", !.handles = HandlesOf(items),
                                !.delete = Marked(items)]
        /\ shown' = [items |-> items, value |-> value]
    BY <1>10 DEF Submit
  <2>2. form = NoForm
    BY <2>1 DEF PostedInv
  <2>3. /\ form'.pc = "process" /\ form'.handles = HandlesOf(items)
        /\ form'.delete = Marked(items) /\ form'.opened = None /\ form'.listed = <<>>
    BY <2>1, <2>2 DEF NoForm
  <2>4. /\ Uploaded' = HandlesOf(items) /\ shown'.value = value'
        /\ Marked(shown.items)' = Marked(items)
    BY <2>1 DEF Uploaded, HandlesOf, Marked
  <2>5. Whole(HandlesOf(items))
    <3>1. items \in Seq(Item)
      BY DEF TypeOK, TypePage
    <3> SUFFICES ASSUME NEW i \in DOMAIN HandlesOf(items)
                 PROVE  server'[HandlesOf(items)[i]] = "done"
      OBVIOUS
    <3>2. /\ i \in 1..Len(items) /\ items[i].handle # None
          /\ HandlesOf(items)[i] = items[i].handle
      BY <3>1, HandlesOfType
    <3>3. NodeIsTrue(items[i], server')
      BY <3>2, NodesStayTrue
    <3> QED
      BY <3>2, <3>3 DEF NodeIsTrue, HandleIsTrue
  <2> QED
    BY <2>1, <2>3, <2>4, <2>5 DEF PostedInv, AreDone
<1>11. CASE ProcessFormdata
  <2>1. form.pc = "process" /\ UNCHANGED <<page, value, shown>>
    BY <1>11 DEF ProcessFormdata, FormStep, pageVars
  <2>2. CASE form.delete
    <3>1. form' = [form EXCEPT !.pc = "validate", !.handles = <<>>]
      BY <1>11, <2>2 DEF ProcessFormdata, FormStep
    <3>2. /\ form'.pc = "validate" /\ form'.handles = <<>> /\ form'.delete = form.delete
          /\ form'.listed = form.listed
      BY <1>1, <3>1
    <3>3. AreDone(form.handles)' /\ AreDone(form.listed)'
      BY <1>2, <3>2 DEF AreDone
    <3>4. page' = "posted" /\ value' = shown'.value /\ form'.delete = Marked(shown.items)'
      BY <1>4, <1>5, <1>7, <2>1, <3>2
    <3> QED
      BY <2>2, <3>2, <3>3, <3>4 DEF PostedInv
  <2>3. CASE ~form.delete
    <3>1. /\ form'.handles = form.handles /\ form'.delete = form.delete
          /\ form'.listed = form.listed /\ form'.opened = form.opened
          /\ \/ form'.pc = "validate" /\ DOMAIN form.handles = {}
             \/ form'.pc = "list"
             \/ form'.pc = "metadata" /\ DOMAIN form.handles # {}
      BY <1>1, <1>11, <2>3 DEF ProcessFormdata, FormStep
    <3> QED
      BY <1>2, <1>4, <1>5, <1>7, <2>1, <2>3, <3>1 DEF PostedInv, AreDone
  <2> QED
    BY <2>2, <2>3
<1>12. CASE ReadMetadata
  <2>1. form.pc = "metadata" /\ UNCHANGED <<page, value, shown, old, disk, meta>>
    BY <1>12 DEF ReadMetadata, FormStep, pageVars, serverVars
  <2>2. /\ form'.pc = "open" /\ form'.handles = form.handles /\ form'.delete = form.delete
        /\ form'.listed = form.listed /\ form'.opened = form.opened
        /\ form'.named = (disk[First(form.handles)] # "none" /\ First(form.handles) \in meta)
    BY <1>1, <1>12 DEF ReadMetadata, FormStep
  <2>3. h \in Files /\ server[h] = "done" /\ form.handles = Uploaded
    BY <1>4, <2>1, UploadedHandles
  <2>4. h \in meta \/ <<"metadata", h>> \in old \/ disk[h] = "none"
    BY <2>3 DEF StoreInv, FilesStay
  <2>5. form'.named \/ <<"metadata", h>> \in old' \/ disk'[h] = "none"
    BY <2>1, <2>2, <2>3, <2>4
  <2> QED
    BY <1>2, <1>4, <1>5, <1>7, <2>1, <2>2, <2>5 DEF PostedInv, AreDone
<1>13. CASE OpenStream /\ disk[First(form.handles)] # "none"
  <2>1. form.pc = "open" /\ UNCHANGED <<page, value, shown, old, disk>>
    BY <1>13 DEF OpenStream, pageVars, serverVars
  <2>2. /\ form'.pc = "validate" /\ form'.handles = form.handles
        /\ form'.delete = form.delete /\ form'.listed = form.listed
        /\ form'.opened = First(form.handles) /\ form'.named = form.named
    BY <1>1, <1>13 DEF OpenStream
  <2> QED
    BY <1>2, <1>4, <1>5, <1>6, <1>7, <1>13, <2>1, <2>2 DEF PostedInv, AreDone
<1>14. ASSUME form' = NoForm PROVE PostedInv'
  BY <1>8, <1>14 DEF PostedInv, AreDone
<1>15. CASE OpenStream /\ disk[First(form.handles)] = "none"
  BY <1>14, <1>15 DEF OpenStream
<1>16. CASE Invalid
  <2>1. form.pc = "validate" /\ UNCHANGED <<page, value, shown>>
    BY <1>16 DEF Invalid, FormStep, pageVars
  <2>2. /\ form'.pc = "list" /\ form'.handles = form.handles
        /\ form'.listed = form.listed
    BY <1>1, <1>16 DEF Invalid, FormStep
  <2> QED
    BY <1>2, <1>5, <2>1, <2>2 DEF PostedInv, AreDone
<1>17. CASE PopulateObj \/ StatFails \/ ShowForm
  BY <1>14, <1>17 DEF PopulateObj, StatFails, ShowForm
<1>18. CASE BuildUploadsList
  <2>1. /\ form.pc = "list" /\ DOMAIN form.handles # {} /\ UNCHANGED <<page, value, shown>>
    BY <1>18 DEF BuildUploadsList, pageVars
  <2> DEFINE g == First(form.handles)
  <2>2. /\ form'.pc = "list" /\ form'.handles = Others(form.handles)
        /\ form'.listed = IF disk[g] = "none" THEN form.listed ELSE Append(form.listed, g)
    BY <1>1, <1>18 DEF BuildUploadsList
  <2>3. g \in Files /\ server'[g] = "done"
    <3>1. FirstAt(form.handles) \in DOMAIN form.handles /\ g \in Files
      BY <1>1, <2>1, FirstHandle
    <3> QED
      BY <1>2, <3>1 DEF First
  <2>4. Whole(Others(form.handles))
    BY <1>1, <1>2, OtherHandles
  <2>5. Whole(form'.listed)
    <3>1. CASE disk[g] = "none"
      BY <1>2, <2>2, <3>1
    <3>2. CASE disk[g] # "none"
      <4> HIDE DEF g
      <4>1. form'.listed = Append(form.listed, g)
        BY <2>2, <3>2
      <4> QED
        BY <1>1, <1>2, <2>3, <4>1
    <3> QED
      BY <3>1, <3>2
  <2> QED
    BY <1>5, <2>1, <2>2, <2>4, <2>5 DEF PostedInv, AreDone
<1>19. \A how : Submit(how) => ~Blocked \/ UNCHANGED <<form, page, value, shown>>
  BY DEF Submit
<1> QED
  BY <1>9, <1>10, <1>11, <1>12, <1>13, <1>15, <1>16, <1>17, <1>18, <1>19, SubmissionChanges

LEMMA SavedNext ==
  ASSUME TypeOK, StoreInv, ShownInv, PostedInv, SavedIsShown, [Next]_vars
  PROVE  SavedIsShown'
<1> USE UploadsAssumption
<1> DEFINE Places == {i \in 1..Len(shown.items) : shown.items[i].handle # None}
<1>1. CASE PopulateObj
  <2>1. /\ form.pc = "validate" /\ UNCHANGED <<shown, old>>
        /\ value' = IF form.delete THEN [file |-> None, named |-> TRUE]
                    ELSE IF form.opened = None THEN value
                    ELSE [file |-> form.opened, named |-> form.named]
    BY <1>1 DEF PopulateObj, serverVars
  <2>2. form.delete = Marked(shown.items) /\ value = shown.value
    BY <2>1 DEF PostedInv
  <2>3. DOMAIN Uploaded = Places
    BY HandlesOfType DEF Uploaded, TypeOK, TypeValue
  <2>4. CASE form.delete
    <3>1. value'.file = None /\ Marked(shown'.items)
      BY <2>1, <2>2, <2>4 DEF Marked
    <3> QED
      BY <3>1 DEF SavedIsShown, Marked
  <2>5. CASE ~form.delete /\ DOMAIN Uploaded = {} /\ form.opened = None
    <3>1. value' = shown'.value /\ ~Marked(shown'.items)
      BY <2>1, <2>2, <2>5 DEF Marked
    <3>2. {i \in 1..Len(shown'.items) : shown'.items[i].handle # None} = {}
      BY <2>1, <2>3, <2>5
    <3> QED
      BY <3>1, <3>2 DEF SavedIsShown, Marked
  <2>6. CASE ~form.delete /\ DOMAIN Uploaded # {} /\ form.opened = First(Uploaded)
             /\ (form.named \/ <<"metadata", form.opened>> \in old)
    <3> DEFINE i == FirstAt(Uploaded)
    <3>1. /\ i \in 1..Len(shown.items) /\ shown.items[i].handle # None
          /\ form.opened = shown.items[i].file /\ form.opened \in Files
          /\ \A j \in 1..Len(shown.items) : shown.items[j].handle # None => i <= j
      BY <2>6, UploadedHandles
    <3>2. value' = [file |-> form.opened, named |-> form.named]
      BY <2>1, <2>6, <3>1
    <3>3. ~Marked(shown'.items) /\ shown' = shown /\ old' = old
      BY <2>1, <2>2, <2>6 DEF Marked
    <3>4. i \in Places /\ \A j \in Places : i <= j
      BY <3>1
    <3>5. value'.file = form.opened /\ value'.named = form.named
      BY <3>2
    <3> HIDE DEF i
    <3>6. /\ i \in {j \in 1..Len(shown'.items) : shown'.items[j].handle # None}
          /\ \A j \in {k \in 1..Len(shown'.items) : shown'.items[k].handle # None} : i <= j
          /\ value'.file = shown'.items[i].file
          /\ value'.named \/ <<"metadata", value'.file>> \in old'
      BY <2>6, <3>1, <3>3, <3>4, <3>5
    <3> QED
      BY <3>3, <3>6 DEF SavedIsShown, Marked
  <2> QED
    BY <2>1, <2>4, <2>5, <2>6 DEF PostedInv
<1>2. CASE page' # "saved"
  BY <1>2 DEF SavedIsShown
<1>3. CASE ~PopulateObj /\ page' = "saved"
  <2>1. page = "saved"
    BY <1>3, PageChanges DEF Submit, OpenStream, StatFails, ShowForm, ShowPage
  <2>2. form.pc = "idle"
    BY <2>1 DEF PostedInv
  <2>3. UNCHANGED value
    BY <1>3, ValueChanges
  <2>4. UNCHANGED shown
    BY <2>1, <2>2, ShownChanges DEF Submit, ShowForm
  <2> QED
    BY <2>1, <2>3, <2>4, Growing DEF SavedIsShown, Marked
<1> QED
  BY <1>1, <1>2, <1>3

LEMMA KeptNext ==
  ASSUME TypeOK, ShownInv, PostedInv, KeptInv, [Next]_vars
  PROVE  KeptInv'
<1> USE UploadsAssumption
<1>1. /\ IsHandles(form.handles) /\ form.listed \in Seq(Files)
      /\ DOMAIN form = {"pc", "handles", "delete", "named", "opened", "listed"}
  BY DEF TypeOK, TypeForm
<1>2. IsHandles(Uploaded) /\ AreDone(Uploaded)
  BY UploadedHandles
<1>3. ASSUME NEW i \in DOMAIN Uploaded, disk[Uploaded[i]] # "whole"
      PROVE  disk'[Uploaded[i]] # "whole"
  BY <1>2, <1>3, GoneIsNotWritten DEF IsHandles, AreDone
<1>4. UNCHANGED shown => Uploaded' = Uploaded /\ Marked(shown.items)' = Marked(shown.items)
  BY DEF Uploaded, HandlesOf, Marked
<1>5. CASE UNCHANGED <<form, shown>>
  <2> SUFFICES ASSUME ~Marked(shown.items), form.pc = "list", NEW i \in DOMAIN Uploaded
               PROVE  IsKept(Uploaded[i])'
    BY <1>4, <1>5 DEF KeptInv
  <2>1. IsKept(Uploaded[i])
    BY DEF KeptInv
  <2>2. Uploaded'[i] = Uploaded[i]
    BY <1>4, <1>5
  <2> QED
    BY <1>3, <1>5, <2>1, <2>2 DEF IsKept, IsToLook, IsListed
<1>6. ASSUME form'.pc \notin {"validate", "list"} PROVE KeptInv'
  BY <1>6 DEF KeptInv
<1>7. ASSUME UNCHANGED shown, form'.handles = Uploaded PROVE KeptInv'
  <2> SUFFICES ASSUME NEW i \in DOMAIN Uploaded PROVE IsKept(Uploaded[i])'
    BY <1>4, <1>7 DEF KeptInv
  <2> QED
    BY <1>4, <1>7 DEF IsKept, IsToLook
<1>8. ASSUME UNCHANGED shown, Marked(shown.items) PROVE KeptInv'
  BY <1>4, <1>8 DEF KeptInv
<1>9. CASE ProcessFormdata
  <2>1. /\ form.pc = "process" /\ UNCHANGED shown
        /\ form.handles = Uploaded /\ form.delete = Marked(shown.items)
    BY <1>9 DEF ProcessFormdata, FormStep, PostedInv
  <2>2. CASE form.delete
    BY <1>8, <2>1, <2>2
  <2>3. CASE ~form.delete
    <3>1. form'.handles = form.handles
      BY <1>1, <1>9, <2>3 DEF ProcessFormdata, FormStep
    <3> QED
      BY <1>7, <2>1, <3>1
  <2> QED
    BY <2>2, <2>3
<1>10. CASE ReadMetadata
  BY <1>1, <1>6, <1>10 DEF ReadMetadata, FormStep
<1>11. CASE OpenStream
  <2>1. UNCHANGED shown /\ form.handles = Uploaded
    BY <1>11 DEF OpenStream, PostedInv
  <2>2. form'.handles = form.handles \/ form' = NoForm
    BY <1>1, <1>11 DEF OpenStream
  <2> QED
    BY <1>6, <1>7, <2>1, <2>2 DEF NoForm
<1>12. CASE Invalid
  <2>1. form.pc = "validate" /\ form'.handles = form.handles /\ UNCHANGED shown
    BY <1>1, <1>12 DEF Invalid, FormStep
  <2>2. ~Marked(shown.items) => form.handles = Uploaded
    BY <2>1 DEF KeptInv
  <2> QED
    BY <1>7, <1>8, <2>1, <2>2
<1>13. CASE BuildUploadsList
  <2> DEFINE g == First(form.handles)
  <2>1. /\ form.pc = "list" /\ DOMAIN form.handles # {} /\ UNCHANGED <<shown, disk>>
        /\ form'.pc = "list" /\ form'.handles = Others(form.handles)
        /\ form'.listed = IF disk[g] = "none" THEN form.listed ELSE Append(form.listed, g)
    BY <1>1, <1>13 DEF BuildUploadsList, serverVars
  <2>2. g \in Files
    BY <1>1, <2>1, FirstHandle
  <2> SUFFICES ASSUME ~Marked(shown.items), NEW i \in DOMAIN Uploaded
               PROVE  IsKept(Uploaded[i])'
    BY <1>4, <2>1 DEF KeptInv
  <2> DEFINE h == Uploaded[i]
  <2>3. Uploaded'[i] = h
    BY <1>4, <2>1
  <2>4. IsKept(h)
    BY <2>1 DEF KeptInv
  <2>5. CASE IsToLook(h)
    <3>1. PICK j \in DOMAIN form.handles : form.handles[j] = h
      BY <2>5 DEF IsToLook
    <3>2. CASE j = FirstAt(form.handles)
      <4>1. h = g
        BY <3>1, <3>2 DEF First
      <4>2. CASE disk[g] = "none"
        BY <2>1, <2>3, <4>1, <4>2 DEF IsKept
      <4>3. CASE disk[g] # "none"
        <5> HIDE DEF g, h
        <5>1. form'.listed = Append(form.listed, g)
          BY <2>1, <4>3
        <5>2. Len(form.listed) + 1 \in 1..Len(form'.listed)
              /\ form'.listed[Len(form.listed) + 1] = g
          BY <1>1, <2>2, <5>1
        <5> QED
          BY <2>3, <4>1, <5>2 DEF IsKept, IsListed
      <4> QED
        BY <4>2, <4>3
    <3>3. CASE j # FirstAt(form.handles)
      <4>1. j \in DOMAIN form'.handles /\ form'.handles[j] = form.handles[j]
        BY <2>1, <3>3 DEF Others
      <4> QED
        BY <2>3, <3>1, <4>1 DEF IsKept, IsToLook
    <3> QED
      BY <3>2, <3>3
  <2>6. CASE IsListed(h)
    <3>1. PICK j \in 1..Len(form.listed) : form.listed[j] = h
      BY <2>6 DEF IsListed
    <3> HIDE DEF g, h
    <3>2. j \in 1..Len(form'.listed) /\ form'.listed[j] = form.listed[j]
      BY <1>1, <2>1, <2>2
    <3> QED
      BY <2>3, <3>1, <3>2 DEF IsKept, IsListed
  <2>7. CASE disk[h] # "whole"
    BY <2>1, <2>3, <2>7 DEF IsKept
  <2> QED
    BY <2>4, <2>5, <2>6, <2>7 DEF IsKept
<1>14. CASE PopulateObj \/ StatFails \/ ShowForm
  BY <1>6, <1>14 DEF PopulateObj, StatFails, ShowForm, NoForm
<1>15. ASSUME NEW how \in {"click", "enter"}, Submit(how) PROVE KeptInv'
  <2>1. CASE Blocked
    BY <1>5, <1>15, <2>1 DEF Submit
  <2>2. CASE ~Blocked
    BY <1>1, <1>6, <1>15, <2>2 DEF Submit
  <2> QED
    BY <2>1, <2>2
<1> QED
  BY <1>5, <1>9, <1>10, <1>11, <1>12, <1>13, <1>14, <1>15, SubmissionChanges

\* Only ShowForm shows a page while a form is listed.
LEMMA KeptFilesAreShown ==
  ASSUME TypeOK, PostedInv, KeptInv, [Next]_vars,
         form.pc = "list", page' = "shown", ~Marked(shown.items),
         NEW i \in 1..Len(shown.items), shown.items[i].handle # None,
         disk[shown.items[i].handle] = "whole"
  PROVE  \E j \in 1..Len(items') : items'[j].handle = shown.items[i].handle
<1> DEFINE h == shown.items[i].handle
<1>1. ShowForm
  <2>1. page = "posted"
    BY DEF PostedInv
  <2> QED
    BY <2>1, PageChanges DEF Submit, OpenStream, PopulateObj, StatFails
<1>2. items' = Rendered(form.listed) /\ DOMAIN form.handles = {}
  BY <1>1 DEF ShowForm, ShowPage
<1>3. i \in DOMAIN Uploaded /\ Uploaded[i] = h
  <2>1. shown.items \in Seq(Item)
    BY DEF TypeOK, TypeValue
  <2> QED
    BY <2>1, HandlesOfType DEF Uploaded
<1>4. IsListed(h)
  <2>1. IsKept(h)
    BY <1>3 DEF KeptInv
  <2> QED
    BY <1>2, <2>1 DEF IsKept, IsToLook
<1>5. PICK j \in 1..Len(form.listed) : form.listed[j] = h
  BY <1>4 DEF IsListed
<1>6. form.listed \in Seq(Files) /\ value \in [file : Contents, named : BOOLEAN]
  BY DEF TypeOK, TypeForm, TypeValue
<1>7. \E k \in 1..Len(Rendered(form.listed)) : Rendered(form.listed)[k].handle = h
  BY <1>5, <1>6, RenderedHandles
<1> QED
  BY <1>2, <1>7

LEMMA IInvInit == Init => IInv
<1> SUFFICES ASSUME Init PROVE IInv
  OBVIOUS
<1> USE UploadsAssumption
<1>1. TypeOK
  BY TypeInit
<1>2. StoreInv
  BY DEF Init, StoreInv, FilesStay, AnswersAreTrue, CleanersClearOld, DeleterIsAsked,
       NoUploads, Idle, NotDeleting
<1>3. PageInv
  <2>1. Len(items) = 1 /\ items[1].existing /\ items[1].handle = None
    BY DEF Init, ExistingItem
  <2>2. \A f \in Files : sending[f] = "none"
    BY DEF Init, NoUploads
  <2>3. \A i \in 1..Len(items) : i = 1
    BY <2>1
  <2> QED
    BY <2>1, <2>2, <2>3 DEF PageInv, NodeIsTrue, HandleIsTrue, Waited
<1>4. ShownInv
  BY DEF Init, NoSubmission, ShownInv
<1>5. PostedInv
  BY DEF Init, NoForm, PostedInv, AreDone
<1>6. SavedIsShown
  BY DEF Init, SavedIsShown
<1> QED
  BY <1>1, <1>2, <1>3, <1>4, <1>5, <1>6 DEF IInv

LEMMA IInvNext == IInv /\ [Next]_vars => IInv'
  BY TypeNext, StoreNext, PageNext, ShownNext, PostedNext, SavedNext DEF IInv

LEMMA IInvAlways == Spec => []IInv
  BY IInvInit, IInvNext, PTL DEF Spec

LEMMA KeptAlways == Spec => []KeptInv
<1>1. Init => KeptInv
  BY DEF Init, KeptInv, NoForm
<1>2. IInv /\ KeptInv /\ [Next]_vars => KeptInv'
  BY KeptNext DEF IInv
<1> QED
  BY <1>1, <1>2, IInvAlways, PTL DEF Spec

-----------------------------------------------------------------------------
(***************************************************************************)
(* The theorems.                                                           *)
(***************************************************************************)

\* Types.
THEOREM TypeCorrect == Spec => []TypeOK
<1>1. IInv => TypeOK
  BY DEF IInv
<1> QED
  BY <1>1, IInvAlways, PTL

\* A handle in a page (getElementForFile, onFileComplete) is that of the file shown
\* with it, which can be read until it is deleted or stalled, whatever uploads are
\* answered in what order, and whatever workers clear meanwhile.
THEOREM HandlesAreReadable == Spec => []ShownIsReadable
<1>1. IInv => ShownIsReadable
  BY DEF IInv, StoreInv, FilesStay, PageInv, NodeIsTrue, HandleIsTrue, ShownIsReadable,
         TypeOK, TypePage, Item
<1> QED
  BY <1>1, IInvAlways, PTL

\* onFormSubmit lets no form go without a file of its page, and the forms that it is
\* not bound to go without those files only that are still being sent: whatever was
\* answered, removed or replaced before, no other node lacks its handle.
THEOREM FormsLeaveUnfinishedOnly == Spec => OnlyUnfinishedLeftBehind
<1>1. ASSUME IInv, [Next]_vars
      PROVE  page = "shown" /\ page' = "posted" =>
               \A i \in 1..Len(items) :
                 \/ items[i].existing
                 \/ items[i].handle # None
                 \/ ~field.inForm /\ items[i].file \in currentlyUploaded
  <2> SUFFICES ASSUME page = "shown", page' = "posted", NEW i \in 1..Len(items),
                      ~items[i].existing, items[i].handle = None
               PROVE  ~field.inForm /\ items[i].file \in currentlyUploaded
    OBVIOUS
  <2>1. PICK how \in {"click", "enter"} : Submit(how)
    BY <1>1, PageChanges DEF OpenStream, PopulateObj, StatFails, ShowForm, ShowPage
  <2>2. ~Blocked
    BY <2>1 DEF Submit
  <2>3. NodeIsTrue(items[i], server) /\ Waited(items[i], sending)
    BY <1>1 DEF IInv, PageInv
  <2>4. items[i].file \in currentlyUploaded
    BY <2>3 DEF NodeIsTrue, Waited, currentlyUploaded
  <2> QED
    BY <2>2, <2>4 DEF Blocked
<1> QED
  BY <1>1, IInvAlways, PTL DEF Spec, OnlyUnfinishedLeftBehind

\* What process_formdata and populate_obj save is what the page showed, with its
\* name, although they look for the files, one after the other, while others are
\* removing them.
THEOREM FormsSaveWhatTheyShow == Spec => []SavedIsShown
<1>1. IInv => SavedIsShown
  BY DEF IInv
<1> QED
  BY <1>1, IInvAlways, PTL

\* process_formdata, the widget and its build_uploads_list look for the files one
\* after the other, while others are removing them: the page of a form that is not
\* valid has every file that is still whole, unless the form deletes.
THEOREM InvalidFormsKeepFiles == Spec => InvalidKeepsFiles
<1>1. ASSUME IInv, KeptInv, [Next]_vars
      PROVE  form.pc = "list" /\ page' = "shown" /\ ~Marked(shown.items) =>
               \A i \in 1..Len(shown.items) :
                 LET h == shown.items[i].handle
                 IN h # None /\ disk[h] = "whole" =>
                      \E j \in 1..Len(items') : items'[j].handle = h
  <2>1. TypeOK /\ PostedInv
    BY <1>1 DEF IInv
  <2> QED
    BY <1>1, <2>1, KeptFilesAreShown
<1> QED
  BY <1>1, IInvAlways, KeptAlways, PTL DEF Spec, InvalidKeepsFiles

=============================================================================
