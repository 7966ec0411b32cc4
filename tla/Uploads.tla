------------------------------ MODULE Uploads ------------------------------
(***************************************************************************)
(* Files uploaded out of band: the FileInput widget of a page              *)
(* (web/resources/js/widgets/file.js) sends each file as soon as it is     *)
(* chosen, the uploads extension keeps it under a handle, and the form     *)
(* that is submitted later only names handles.  An hourly task removes     *)
(* what is older than a day, while requests write, read and delete.        *)
(*                                                                         *)
(* The model has one user, one page at a time with one file field, and     *)
(* the requests of that user.  A file is chosen once, so the handle that   *)
(* add_file gives it (a uuid) is named by the file.                        *)
(***************************************************************************)
EXTENDS Naturals, Sequences

CONSTANTS Files,     \* what the user may choose
          Stored,    \* the file that the object has from the start
          None,
          Cleaners,  \* workers that run the periodic task
          Fields,    \* how the field may be rendered
          Lasting    \* bounds the files that stay for a day or are deleted

ASSUME UploadsAssumption ==
  /\ Stored \notin Files /\ None \notin Files \cup {Stored}
  /\ Fields \subseteq [inForm : BOOLEAN, multiple : BOOLEAN]
  /\ Lasting \subseteq Files

VARIABLES
  field,      \* of the form: its node is a child of the form's; it is multiple
  page,       \* what the browser shows
  items,      \* the nodes of .selected-files
  sending,    \* the requests of currentlyUploaded, and their answers
  disabled,   \* the submit controls have the class "disabled"
  server,     \* where add_file is, for each file
  dir,        \* the user's directory exists
  disk, meta, \* contents and metadata files in it
  old,        \* those changed more than DELETE_STALLED_AFTER ago
  cleaner,    \* clear_stalled_files in each worker
  deleter,    \* a DELETE request
  form,       \* the POST of the form
  value,      \* the object's blob: whose content, with its name or not
  shown,      \* history: the page and the blob when the form was submitted
  revoked     \* history: handles that DELETE was asked for

pageVars == <<field, page, items, sending, disabled>>
serverVars == <<server, dir, disk, meta, old>>
vars == <<pageVars, serverVars, cleaner, deleter, form, value, shown, revoked>>

Contents == Files \cup {Stored, None}
Paths == {"content", "metadata"} \X Files
Item == [file : Files \cup {Stored}, handle : Files \cup {None},
         existing : BOOLEAN, marked : BOOLEAN]
NoSubmission == [items |-> <<>>, value |-> [file |-> None, named |-> TRUE]]
NoUploads == [f \in Files |-> "none"]
currentlyUploaded == {f \in Files : sending[f] # "none"}

(***************************************************************************)
(* The page.                                                               *)
(***************************************************************************)
ExistingItem == [file |-> value.file, handle |-> None, existing |-> TRUE, marked |-> FALSE]
UploadedItem(h) == [file |-> h, handle |-> h, existing |-> FALSE, marked |-> FALSE]
NewItem(f) == [UploadedItem(f) EXCEPT !.handle = None]

\* What FileInput renders: the deletion that was asked for is not rendered
\* again, since an integer is looked for among strings.
Rendered(handles) ==
  LET existing == IF value.file # None /\ (field.multiple \/ handles = <<>>)
                  THEN <<ExistingItem>> ELSE <<>>
  IN existing \o [i \in 1..Len(handles) |-> UploadedItem(handles[i])]

\* A page that the server has just sent; uploads of the previous one are
\* nobody's any more.
ShowPage(handles) ==
  /\ page' = "shown"
  /\ items' = Rendered(handles)
  /\ sending' = NoUploads
  /\ disabled' = FALSE
  /\ shown' = NoSubmission
  /\ UNCHANGED field

\* addFiles, addFileNode and triggerUpload.  The uploads whose node a single
\* field drops go on.
AddFile(f) ==
  /\ page = "shown"
  /\ server[f] = "new"
  /\ items' = Append(IF field.multiple THEN items ELSE <<>>, NewItem(f))
  /\ sending' = [sending EXCEPT ![f] = "sent"]
  /\ server' = [server EXCEPT ![f] = "sent"]
  /\ UNCHANGED <<field, page, disabled, dir, disk, meta, old,
                 cleaner, deleter, form, value, shown, revoked>>

\* Nodes have the uid of their file as id, which existing files have not.
IsNodeOf(item, f) == item.file = f /\ ~item.existing

NodesOf(f) == {i \in 1..Len(items) : IsNodeOf(items[i], f)}

\* A file has one node at most, since it is chosen once.
WithoutNode(f) ==
  LET i == CHOOSE i \in NodesOf(f) : TRUE
  IN IF NodesOf(f) = {} THEN items
     ELSE SubSeq(items, 1, i - 1) \o SubSeq(items, i + 1, Len(items))

\* The cross of an item; nothing is said to the server, nor to the upload.
RemoveFileNode(f) ==
  /\ page = "shown"
  /\ NodesOf(f) # {}
  /\ items' = WithoutNode(f)
  /\ UNCHANGED <<field, page, sending, disabled, serverVars,
                 cleaner, deleter, form, value, shown, revoked>>

\* The button of a file that the object has: it will be deleted, or not.  When the
\* click is on the icon in the button, the icon is the event's target: it carries no
\* marker input, and nothing is marked.
OnExistingNodeChange ==
  /\ page = "shown"
  /\ \E i \in 1..Len(items), target \in {"button", "icon"} :
       /\ items[i].existing
       /\ items' = IF target = "button"
                   THEN [items EXCEPT ![i].marked = ~items[i].marked] ELSE items
  /\ UNCHANGED <<field, page, sending, disabled, serverVars,
                 cleaner, deleter, form, value, shown, revoked>>

\* The slip of looking for the node that was added last.
LastElement(f) == {i \in 1..Len(items) : i = Len(items)}

\* The node that getElementForFile finds for the file of an answer.
ElementForFile(f) == NodesOf(f)

\* The slip of forgetting every request when one is answered.
CompleteForgettingOthers(f) ==
  /\ page = "shown"
  /\ sending[f] \in {"ok", "error"}
  /\ sending' = NoUploads
  /\ items' = IF sending[f] = "error" THEN WithoutNode(f)
              ELSE [i \in 1..Len(items) |->
                      IF i \in ElementForFile(f)
                      THEN [items[i] EXCEPT !.handle = f] ELSE items[i]]
  /\ UNCHANGED <<field, page, disabled, serverVars,
                 cleaner, deleter, form, value, shown, revoked>>

\* FileAPI calls complete once, a tick after the end of the request; the node
\* may be gone by then.
OnFileComplete(f) ==
  /\ page = "shown"
  /\ sending[f] \in {"ok", "error"}
  /\ sending' = [sending EXCEPT ![f] = "none"]
  /\ items' = IF sending[f] = "error" THEN WithoutNode(f)
              ELSE [i \in 1..Len(items) |->
                      IF i \in ElementForFile(f)
                      THEN [items[i] EXCEPT !.handle = f] ELSE items[i]]
  /\ UNCHANGED <<field, page, disabled, serverVars,
                 cleaner, deleter, form, value, shown, revoked>>

\* The slip of giving every item its hidden input at once.
HandlesOfAll(list) == [i \in 1..Len(list) |-> list[i].handle]

\* The values of the hidden inputs, each at the place of the item that carries it.
HandlesOf(list) ==
  LET uploaded == {i \in 1..Len(list) : list[i].handle # None}
  IN [i \in uploaded |-> list[i].handle]

Marked(list) == \E i \in 1..Len(list) : list[i].marked

\* onFormSubmit is bound to the form only when the widget is its child.
Blocked == field.inForm /\ currentlyUploaded # {}

\* A click disables the controls, then the form is submitted, unless
\* onFormSubmit prevents it.  The enter key clicks disabled controls too.
Submit(how) ==
  /\ page = "shown"
  /\ how = "click" => ~disabled
  /\ disabled' = TRUE
  /\ IF Blocked
     THEN UNCHANGED <<page, sending, form, shown>>
     ELSE /\ page' = "posted"
          /\ sending' = NoUploads
          /\ form' = [form EXCEPT !.pc = "process", !.handles = HandlesOf(items),
                                  !.delete = Marked(items)]
          /\ shown' = [items |-> items, value |-> value]
  /\ UNCHANGED <<field, items, serverVars, cleaner, deleter, value, revoked>>

(***************************************************************************)
(* add_file, in the request that uploads f.                                *)
(***************************************************************************)
Serve(f, from, to) == server[f] = from /\ server' = [server EXCEPT ![f] = to]

\* What the browser hears of the request, if it has not heard of its failure
\* and the page is still there.
Answer(f, what) ==
  sending' = [sending EXCEPT ![f] = IF sending[f] = "sent" THEN what ELSE sending[f]]

\* The content is open while it is written: nobody knows the handle yet.
WriteContent(f) ==
  /\ \/ Serve(f, "sent", "metadata") /\ dir
     \/ Serve(f, "open", "metadata")
  /\ disk' = [disk EXCEPT ![f] = "whole"]
  /\ UNCHANGED <<pageVars, dir, meta, old, cleaner, deleter, form, value, shown, revoked>>

NoUserDir(f) ==
  /\ ~dir
  /\ Serve(f, "sent", "mkdir")
  /\ UNCHANGED <<pageVars, dir, disk, meta, old, cleaner, deleter, form, value,
                 shown, revoked>>

\* Another request may have made the directory since: mkdir raises.
MakeUserDir(f) ==
  /\ Serve(f, "mkdir", IF dir THEN "failed" ELSE "open")
  /\ dir' = TRUE
  /\ IF dir THEN Answer(f, "error") ELSE UNCHANGED sending
  /\ UNCHANGED <<field, page, items, disabled, disk, meta, old, cleaner, deleter,
                 form, value, shown, revoked>>

WriteMetadata(f) ==
  /\ Serve(f, "metadata", "done")
  /\ meta' = meta \cup {f}
  /\ Answer(f, "ok")
  /\ UNCHANGED <<field, page, items, disabled, dir, disk, old, cleaner, deleter,
                 form, value, shown, revoked>>

\* The process dies, or the disk is full: what is written stays.
UploadDies(f) ==
  /\ \/ Serve(f, "sent", "failed") /\ dir /\ disk' = [disk EXCEPT ![f] = "partial"]
     \/ Serve(f, "open", "failed") /\ disk' = [disk EXCEPT ![f] = "partial"]
     \/ Serve(f, "metadata", "failed") /\ UNCHANGED disk
  /\ Answer(f, "error")
  /\ UNCHANGED <<field, page, items, disabled, dir, meta, old, cleaner, deleter,
                 form, value, shown, revoked>>

\* The connection is lost: the browser is told of a failure, whatever the
\* server does.
LoseConnection(f) ==
  /\ sending[f] = "sent"
  /\ sending' = [sending EXCEPT ![f] = "error"]
  /\ UNCHANGED <<field, page, items, disabled, server, dir, disk, meta, old, cleaner, deleter,
                 form, value, shown, revoked>>

(***************************************************************************)
(* The files.                                                              *)
(***************************************************************************)
IsFile(p) == IF p[1] = "content" THEN disk[p[2]] # "none" ELSE p[2] \in meta

\* A day passes after a file was written.  Metadata are written last.
GrowOld(p) ==
  /\ IsFile(p)
  /\ p[2] \in Lasting
  /\ server[p[2]] \in {"done", "failed"}
  /\ p[1] = "metadata" => <<"content", p[2]>> \in old
  /\ old' = old \cup {p}
  /\ UNCHANGED <<pageVars, server, dir, disk, meta, cleaner, deleter,
                 form, value, shown, revoked>>

Unlink(p) ==
  /\ disk' = IF p[1] = "content" THEN [disk EXCEPT ![p[2]] = "none"] ELSE disk
  /\ meta' = IF p[1] = "metadata" THEN meta \ {p[2]} ELSE meta

(***************************************************************************)
(* clear_stalled_files.                                                    *)
(***************************************************************************)
Idle == [pc |-> "idle", stalled |-> {}, todo |-> {}, at |-> None]

\* The time is read once, the directory is listed at once.
StartClearing(c) ==
  /\ cleaner[c].pc = "idle"
  /\ dir
  /\ LET listed == {p \in Paths : IsFile(p)}
     IN cleaner' = [cleaner EXCEPT ![c] =
          [pc |-> "next", stalled |-> listed \cap old, todo |-> listed, at |-> None]]
  /\ UNCHANGED <<pageVars, serverVars, deleter, form, value, shown, revoked>>

Clears(c, p) == cleaner[c].pc = "next" /\ p \in cleaner[c].todo
Left(c, p) == [cleaner[c] EXCEPT !.todo = cleaner[c].todo \ {p}]

\* The slip of clearing contents and not their metadata.
ClearNextContent(c, p) ==
  /\ Clears(c, p)
  /\ cleaner' = [cleaner EXCEPT ![c] =
       IF IsFile(p) /\ p \in cleaner[c].stalled /\ p[1] = "content"
       THEN [Left(c, p) EXCEPT !.pc = "unlink", !.at = p] ELSE Left(c, p)]
  /\ UNCHANGED <<pageVars, serverVars, deleter, form, value, shown, revoked>>

\* is_file, then stat.
ClearNext(c, p) ==
  /\ Clears(c, p)
  /\ cleaner' = [cleaner EXCEPT ![c] =
       IF IsFile(p) /\ p \in cleaner[c].stalled
       THEN [Left(c, p) EXCEPT !.pc = "unlink", !.at = p] ELSE Left(c, p)]
  /\ UNCHANGED <<pageVars, serverVars, deleter, form, value, shown, revoked>>

\* A file that is gone when is_file looks is logged and skipped (ClearNext); when
\* it goes between is_file and stat, stat raises and ends the task.
StatRaises(c, p) ==
  /\ Clears(c, p)
  /\ ~IsFile(p)
  /\ cleaner' = [cleaner EXCEPT ![c] = Idle]
  /\ UNCHANGED <<pageVars, serverVars, deleter, form, value, shown, revoked>>

\* So does unlink.
UnlinkContent(c) ==
  LET p == cleaner[c].at
  IN /\ cleaner[c].pc = "unlink"
     /\ cleaner' = [cleaner EXCEPT ![c] =
          IF IsFile(p) THEN [cleaner[c] EXCEPT !.pc = "next", !.at = None] ELSE Idle]
     /\ Unlink(p)
     /\ UNCHANGED <<pageVars, server, dir, old, deleter, form, value, shown, revoked>>

EndClearing(c) ==
  /\ cleaner[c].pc = "next"
  /\ cleaner[c].todo = {}
  /\ cleaner' = [cleaner EXCEPT ![c] = Idle]
  /\ UNCHANGED <<pageVars, serverVars, deleter, form, value, shown, revoked>>

(***************************************************************************)
(* UploadView.delete and remove_file.  Only a handle that the server has   *)
(* answered is known to anybody.                                           *)
(***************************************************************************)
NotDeleting == [pc |-> "idle", handle |-> None, paths |-> {}]

\* The view and remove_file look for the content; what they find is unlinked
\* last of all, so the two look-ups are one step.
DeleteFile(h) ==
  /\ deleter.pc = "idle"
  /\ h \in Lasting
  /\ server[h] = "done"
  /\ disk[h] # "none"
  /\ deleter' = [pc |-> "metafile", handle |-> h, paths |-> {<<"content", h>>}]
  /\ revoked' = revoked \cup {h}
  /\ UNCHANGED <<pageVars, serverVars, cleaner, form, value, shown>>

\* Metadata are not looked for when the content has gone meanwhile.
LookUpMetadata ==
  LET h == deleter.handle
  IN /\ deleter.pc = "metafile"
     /\ deleter' = [deleter EXCEPT !.pc = "first",
          !.paths = deleter.paths \cup (IF disk[h] # "none" /\ h \in meta
                                        THEN {<<"metadata", h>>} ELSE {})]
     /\ UNCHANGED <<pageVars, serverVars, cleaner, form, value, shown, revoked>>

\* unlink fails when the cleaner came first; that is logged.
DeleteUnlinks(from, what, to) ==
  LET p == <<what, deleter.handle>>
  IN /\ deleter.pc = from
     /\ deleter' = IF to = "idle" THEN NotDeleting ELSE [deleter EXCEPT !.pc = to]
     /\ IF p \in deleter.paths THEN Unlink(p) ELSE UNCHANGED <<disk, meta>>
     /\ UNCHANGED <<pageVars, server, dir, old, cleaner, form, value,
                    shown, revoked>>

\* The slip of unlinking the metadata first.
RemoveMetadataFirst ==
  \/ LookUpMetadata
  \/ DeleteUnlinks("first", "metadata", "second")
  \/ DeleteUnlinks("second", "content", "idle")

RemoveFile ==
  \/ LookUpMetadata
  \/ DeleteUnlinks("first", "content", "second")
  \/ DeleteUnlinks("second", "metadata", "idle")

(***************************************************************************)
(* The form: FileField.process_formdata, populate_obj, and the widget when *)
(* the form is not valid.                                                  *)
(***************************************************************************)
NoForm == [pc |-> "idle", handles |-> <<>>, delete |-> FALSE, named |-> FALSE,
           opened |-> None, listed |-> <<>>]

FormStep(from, changed) == form.pc = from /\ form' = changed

FirstAt(handles) == CHOOSE i \in DOMAIN handles : \A j \in DOMAIN handles : i <= j
First(handles) == handles[FirstAt(handles)]
Others(handles) == [i \in DOMAIN handles \ {FirstAt(handles)} |-> handles[i]]

\* A deletion makes the field forget the handles; without a file to read
\* there is only the rest of the form to validate.
ProcessFormdata ==
  /\ FormStep("process",
       IF form.delete THEN [form EXCEPT !.pc = "validate", !.handles = <<>>]
       ELSE IF DOMAIN form.handles = {} THEN [form EXCEPT !.pc = "validate"]
       ELSE IF disk[First(form.handles)] = "none" THEN [form EXCEPT !.pc = "list"]
       ELSE [form EXCEPT !.pc = "metadata"])
  /\ UNCHANGED <<pageVars, serverVars, cleaner, deleter, value, shown, revoked>>

\* get_metadata looks for the content again, then for the metadata.
ReadMetadata ==
  /\ FormStep("metadata",
       [form EXCEPT !.pc = "open",
                    !.named = disk[First(form.handles)] # "none" /\ First(form.handles) \in meta])
  /\ UNCHANGED <<pageVars, serverVars, cleaner, deleter, value, shown, revoked>>

\* The slip of forgetting the handles once the form has its file.
OpenStreamForgetting ==
  LET h == First(form.handles)
  IN /\ form.pc = "open"
     /\ IF disk[h] = "none"
        THEN page' = "error" /\ form' = NoForm
        ELSE /\ form' = [form EXCEPT !.pc = "validate", !.opened = h, !.handles = <<>>]
             /\ UNCHANGED page
     /\ UNCHANGED <<field, items, sending, disabled, serverVars, cleaner, deleter,
                    value, shown, revoked>>

\* The content can be read until the stream is closed, whatever becomes of
\* the file.
OpenStream ==
  LET h == First(form.handles)
  IN /\ form.pc = "open"
     /\ IF disk[h] = "none"
        THEN page' = "error" /\ form' = NoForm
        ELSE UNCHANGED page /\ form' = [form EXCEPT !.pc = "validate", !.opened = h]
     /\ UNCHANGED <<field, items, sending, disabled, serverVars, cleaner, deleter,
                    value, shown, revoked>>

\* The other fields may be wrong.
Invalid ==
  /\ FormStep("validate", [form EXCEPT !.pc = "list"])
  /\ UNCHANGED <<pageVars, serverVars, cleaner, deleter, value, shown, revoked>>

PopulateObj ==
  /\ form.pc = "validate"
  /\ value' = IF form.delete THEN [file |-> None, named |-> TRUE]
              ELSE IF form.opened = None THEN value
              ELSE [file |-> form.opened, named |-> form.named]
  /\ form' = NoForm
  /\ page' = "saved"
  /\ UNCHANGED <<field, items, sending, disabled, serverVars, cleaner, deleter,
                 shown, revoked>>

\* build_uploads_list, one handle after the other.
BuildUploadsList ==
  /\ form.pc = "list"
  /\ DOMAIN form.handles # {}
  /\ form' = [form EXCEPT !.handles = Others(form.handles),
       !.listed = IF disk[First(form.handles)] = "none" THEN form.listed
                  ELSE Append(form.listed, First(form.handles))]
  /\ UNCHANGED <<pageVars, serverVars, cleaner, deleter, value, shown, revoked>>

\* The size of a file that has gone since get_file found it.
StatFails ==
  /\ form.pc = "list"
  /\ form.listed # <<>>
  /\ disk[form.listed[Len(form.listed)]] = "none"
  /\ form' = NoForm
  /\ page' = "error"
  /\ UNCHANGED <<field, items, sending, disabled, serverVars, cleaner, deleter,
                 value, shown, revoked>>

ShowForm ==
  /\ form.pc = "list"
  /\ DOMAIN form.handles = {}
  /\ ShowPage(form.listed)
  /\ form' = NoForm
  /\ UNCHANGED <<serverVars, cleaner, deleter, value, revoked>>

(***************************************************************************)
(* The specification.                                                      *)
(***************************************************************************)
Init ==
  /\ field \in Fields
  /\ value = [file |-> Stored, named |-> TRUE]
  /\ page = "shown"
  /\ items = <<ExistingItem>>
  /\ sending = NoUploads
  /\ disabled = FALSE
  /\ server = [f \in Files |-> "new"]
  /\ dir = FALSE
  /\ disk = [f \in Files |-> "none"]
  /\ meta = {}
  /\ old = {}
  /\ cleaner = [c \in Cleaners |-> Idle]
  /\ deleter = NotDeleting
  /\ form = NoForm
  /\ shown = NoSubmission
  /\ revoked = {}

ServeUpload(f) ==
  \/ NoUserDir(f)
  \/ MakeUserDir(f)
  \/ WriteContent(f)
  \/ WriteMetadata(f)

Clear(c) ==
  \/ StartClearing(c)
  \/ \E p \in Paths : ClearNext(c, p) \/ StatRaises(c, p)
  \/ UnlinkContent(c)
  \/ EndClearing(c)

ServeForm ==
  \/ ProcessFormdata
  \/ ReadMetadata
  \/ OpenStream
  \/ Invalid
  \/ PopulateObj
  \/ BuildUploadsList
  \/ StatFails
  \/ ShowForm

Next ==
  \/ OnExistingNodeChange
  \/ \E how \in {"click", "enter"} : Submit(how)
  \/ \E f \in Files : \/ AddFile(f)
                      \/ RemoveFileNode(f)
                      \/ OnFileComplete(f)
                      \/ LoseConnection(f)
                      \/ ServeUpload(f)
                      \/ UploadDies(f)
                      \/ DeleteFile(f)
  \/ \E p \in Paths : GrowOld(p)
  \/ \E c \in Cleaners : Clear(c)
  \/ RemoveFile
  \/ ServeForm

Spec == Init /\ [][Next]_vars

\* celery's beat sends the task every hour and a worker runs it to its end.
FairSpec == Spec /\ \A c \in Cleaners : WF_vars(Clear(c))

(***************************************************************************)
(* Properties.                                                             *)
(***************************************************************************)

\* Types; the handles of a form are a function from places in its page, and a form
\* that reads a file has some.
IsHandles(handles) == handles \in [DOMAIN handles -> Files] /\ DOMAIN handles \subseteq Nat

TypePage ==
  /\ field \in [inForm : BOOLEAN, multiple : BOOLEAN]
  /\ page \in {"shown", "posted", "saved", "error"}
  /\ items \in Seq(Item)
  /\ sending \in [Files -> {"none", "sent", "ok", "error"}]
  /\ disabled \in BOOLEAN

TypeServer ==
  /\ server \in [Files -> {"new", "sent", "mkdir", "open", "metadata", "done", "failed"}]
  /\ dir \in BOOLEAN
  /\ disk \in [Files -> {"none", "partial", "whole"}]
  /\ meta \subseteq Files
  /\ old \subseteq Paths
  /\ revoked \subseteq Files

TypeCleaner ==
  cleaner \in [Cleaners -> [pc : {"idle", "next", "unlink"}, stalled : SUBSET Paths,
                           todo : SUBSET Paths, at : Paths \cup {None}]]

TypeDeleter ==
  deleter \in [pc : {"idle", "metafile", "first", "second"},
              handle : Files \cup {None}, paths : SUBSET Paths]

TypeForm ==
  /\ form \in [pc : {"idle", "process", "metadata", "open", "validate", "list"},
               handles : {form.handles}, delete : BOOLEAN, named : BOOLEAN,
               opened : Files \cup {None}, listed : Seq(Files)]
  /\ IsHandles(form.handles)
  /\ form.pc \in {"metadata", "open"} => DOMAIN form.handles # {}

TypeValue ==
  /\ value \in [file : Contents, named : BOOLEAN]
  /\ shown \in [items : Seq(Item), value : [file : Contents, named : BOOLEAN]]

TypeOK == TypePage /\ TypeServer /\ TypeCleaner /\ TypeDeleter /\ TypeForm /\ TypeValue

\* A handle in the page is that of the file shown with it (onFileComplete finds
\* the node of the answer, not the last one), and the server has this file, whole,
\* until somebody deletes it or a day has passed (clear_stalled_files).
ShownIsReadable ==
  page = "shown" =>
    \A i \in 1..Len(items) :
      LET h == items[i].handle
      IN h # None => /\ h = items[i].file
                     /\ \/ disk[h] = "whole"
                        \/ h \in revoked
                        \/ <<"content", h>> \in old

\* What a form saves is what its page showed when it was submitted: a deletion
\* if one was marked, else the first file that has been uploaded, else nothing
\* new.  The file comes with its name, unless its metadata were a day old
\* (get_metadata in process_formdata, beside remove_file and the task).
SavedIsShown ==
  page = "saved" =>
    LET uploaded == {i \in 1..Len(shown.items) : shown.items[i].handle # None}
    IN IF Marked(shown.items) THEN value.file = None
       ELSE IF uploaded = {} THEN value = shown.value
       ELSE \E i \in uploaded :
              /\ \A j \in uploaded : i <= j
              /\ value.file = shown.items[i].file
              /\ value.named \/ <<"metadata", value.file>> \in old

\* A form leaves no file of its page behind but one that is still being sent, and
\* that only where onFormSubmit is not bound: there is no node without a handle that
\* is not waited for, whatever is answered, removed or replaced before.
OnlyUnfinishedLeftBehind ==
  [][page = "shown" /\ page' = "posted" =>
       \A i \in 1..Len(items) :
         \/ items[i].existing
         \/ items[i].handle # None
         \/ ~field.inForm /\ items[i].file \in currentlyUploaded]_vars

\* When a form is not valid its uploaded files are not lost: the next page shows
\* those that are still there, unless a deletion was asked for as well.
InvalidKeepsFiles ==
  [][form.pc = "list" /\ page' = "shown" /\ ~Marked(shown.items) =>
       \A i \in 1..Len(shown.items) :
         LET h == shown.items[i].handle
         IN h # None /\ disk[h] = "whole" =>
              \E j \in 1..Len(items') : items'[j].handle = h]_vars

\* The task removes whatever is older than a day, however often a request or
\* another worker makes it stop in the middle.
StalledFilesGo == []<>(\A p \in old : ~IsFile(p))
=============================================================================
