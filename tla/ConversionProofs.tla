------------------------- MODULE ConversionProofs --------------------------
(***************************************************************************)
(* Proofs about Conversion, for any calls, documents and servers.          *)
(***************************************************************************)
EXTENDS Conversion, TLAPS

-----------------------------------------------------------------------------
(***************************************************************************)
(* Types.                                                                  *)
(***************************************************************************)
LEMMA JobsStay ==
  ASSUME TypeOK, [Next]_vars
  PROVE  job' = job
  BY DEF Next, Step, RunSoffice, Convert, Begin, LookUpText, LookUpPdf, StartThread,
       Popen, PopenFails, Communicate, Communicated, Joined, TimeOut, ReadOutput,
       DeleteAttribute, ProcessWrites, ProcessSucceeds, ProcessDies, SavePdf,
       SaveText, ConvertToText, ConvertToTextFails, Crash, LookUp, OpenCache,
       WritePart, vars, callVars, processVars, history

LEMMA JobTypes ==
  ASSUME TypeOK, NEW c \in Calls
  PROVE  /\ job[c].kind \in {"pdf", "text"} /\ job[c].doc \in Documents
         /\ Server(c) \in Servers
         /\ \A kind \in {"pdf", "text"} : Key(c, kind) \in Keys
<1>1. job \in [Calls -> [kind : {"pdf", "text"}, doc : Documents, server : Servers]]
  BY ConversionAssumption DEF TypeOK
<1> QED
  BY <1>1 DEF Server, Key, Keys

LEMMA TypeInit == Init => TypeOK
  BY ConversionAssumption DEF Init, TypeOK, Absent, Keys, Active, Parts

LEMMA TypeNext ==
  ASSUME TypeOK, [Next]_vars
  PROVE  TypeOK'
<1> USE ConversionAssumption, JobTypes
        DEF TypeOK, callVars, processVars, history, Active, InHandler, Writing
<1>1. ASSUME NEW c \in Calls, Begin(c) PROVE TypeOK'
  BY <1>1 DEF Begin, Goto
<1>2. ASSUME NEW c \in Calls, LookUpText(c) PROVE TypeOK'
  <2>1. /\ Written(Key(c, "text")) \in SUBSET Parts /\ job[c].doc \in Documents
        /\ pc' = [pc EXCEPT ![c] = IF Written(Key(c, "text")) = {} THEN "pdf"
                                   ELSE "done"]
        /\ content' = [content EXCEPT ![c] = Written(Key(c, "text"))]
        /\ torn' = torn \/ torn' = torn \cup {job[c].doc}
    BY <1>2, JobTypes DEF LookUpText, LookUp, Goto, Written
  <2> QED
    BY <1>2, <2>1 DEF LookUpText, LookUp
<1>3. ASSUME NEW c \in Calls, LookUpPdf(c) PROVE TypeOK'
  <2>1. /\ Written(Key(c, "pdf")) \in SUBSET Parts /\ job[c].doc \in Documents
        /\ pc' = [pc EXCEPT ![c] = IF Written(Key(c, "pdf")) = {} THEN "start"
                                   ELSE IF job[c].kind = "pdf" THEN "done" ELSE "convert"]
        /\ content' = [content EXCEPT ![c] = Written(Key(c, "pdf"))]
        /\ torn' = torn \/ torn' = torn \cup {job[c].doc}
    BY <1>3, JobTypes DEF LookUpPdf, LookUp, Goto, Written
  <2> QED
    BY <1>3, <2>1 DEF LookUpPdf, LookUp
<1>4. ASSUME NEW c \in Calls, StartThread(c) PROVE TypeOK'
  <2>1. Others(c) \subseteq Calls
    BY DEF Others
  <2> QED
    BY <1>4, <2>1 DEF StartThread, Goto
<1>5. ASSUME NEW c \in Calls, Popen(c) PROVE TypeOK'
  BY <1>5 DEF Popen, Goto
<1>6. ASSUME NEW c \in Calls, PopenFails(c) PROVE TypeOK'
  BY <1>6 DEF PopenFails, Goto
<1>7. ASSUME NEW c \in Calls, Communicate(c) PROVE TypeOK'
  <2>1. Server(c) \in Servers
    BY JobTypes
  <2> QED
    BY <1>7, <2>1 DEF Communicate
<1>8. ASSUME NEW c \in Calls, Communicated(c) PROVE TypeOK'
  BY <1>8 DEF Communicated, Goto
<1>9. ASSUME NEW c \in Calls, Joined(c) PROVE TypeOK'
  BY <1>9 DEF Joined, Goto
<1>10. ASSUME NEW c \in Calls, TimeOut(c) PROVE TypeOK'
  BY <1>10 DEF TimeOut, Goto
<1>11. ASSUME NEW c \in Calls, ReadOutput(c) PROVE TypeOK'
  BY <1>11 DEF ReadOutput, Goto
<1>12. ASSUME NEW c \in Calls, DeleteAttribute(c) PROVE TypeOK'
  <2>1. /\ \E to \in {"failed", "openpdf"} : pc' = [pc EXCEPT ![c] = to]
        /\ attr' = [attr EXCEPT ![Server(c)] = None]
        /\ UNCHANGED process
    BY <1>12 DEF DeleteAttribute, Goto
  <2>2. \A s \in Servers : attr'[s] # None => attr'[s] = attr[s]
    BY <2>1
  <2> QED
    BY <1>12, <2>1, <2>2 DEF DeleteAttribute
<1>13. ASSUME NEW c \in Calls, ProcessWrites(c) PROVE TypeOK'
  BY <1>13 DEF ProcessWrites, Parts
<1>14. ASSUME NEW c \in Calls, ProcessSucceeds(c) PROVE TypeOK'
  BY <1>14 DEF ProcessSucceeds, Goto
<1>15. ASSUME NEW c \in Calls, ProcessDies(c) PROVE TypeOK'
  BY <1>15 DEF ProcessDies, Goto
<1>16. ASSUME NEW c \in Calls, SavePdf(c) PROVE TypeOK'
  <2> DEFINE k == Key(c, "pdf")
  <2>1. k \in Keys /\ cache[k] \in [exists : BOOLEAN, parts : SUBSET Parts]
    BY JobTypes
  <2>2. /\ \E to \in Active \cup {"done"} : pc' = [pc EXCEPT ![c] = to]
        /\ UNCHANGED <<job, content, processVars, crashes, history>>
    BY <1>16 DEF SavePdf, OpenCache, WritePart, Goto
  <2>3. \/ cache' = [cache EXCEPT ![k] = [exists |-> TRUE, parts |-> {}]]
        \/ \E part \in {1, 2} :
             cache' = [cache EXCEPT ![k].parts = @ \cup (content[c] \cap {part})]
    BY <1>16 DEF SavePdf, OpenCache, WritePart
  <2> HIDE DEF k
  <2>4. cache' \in [Keys -> [exists : BOOLEAN, parts : SUBSET Parts]]
    <3>1. content[c] \in SUBSET Parts
      OBVIOUS
    <3>2. ASSUME NEW part, cache' = [cache EXCEPT ![k].parts = @ \cup (content[c] \cap {part})]
          PROVE  cache' \in [Keys -> [exists : BOOLEAN, parts : SUBSET Parts]]
      <4>1. [cache[k] EXCEPT !.parts = @ \cup (content[c] \cap {part})]
              \in [exists : BOOLEAN, parts : SUBSET Parts]
        BY <2>1, <3>1
      <4>2. cache' = [cache EXCEPT ![k] =
                       [cache[k] EXCEPT !.parts = @ \cup (content[c] \cap {part})]]
        BY <3>2
      <4> HIDE DEF TypeOK
      <4> QED
        BY <2>1, <4>1, <4>2 DEF TypeOK
    <3>3. CASE cache' = [cache EXCEPT ![k] = [exists |-> TRUE, parts |-> {}]]
      BY <2>1, <3>3
    <3> QED
      BY <2>3, <3>2, <3>3
  <2> QED
    BY <2>2, <2>4
<1>17. ASSUME NEW c \in Calls, SaveText(c) PROVE TypeOK'
  <2> DEFINE k == Key(c, "text")
  <2>1. k \in Keys /\ cache[k] \in [exists : BOOLEAN, parts : SUBSET Parts]
    BY JobTypes
  <2>2. /\ \E to \in Active \cup {"done"} : pc' = [pc EXCEPT ![c] = to]
        /\ UNCHANGED <<job, content, processVars, crashes, history>>
    BY <1>17 DEF SaveText, OpenCache, WritePart, Goto
  <2>3. \/ cache' = [cache EXCEPT ![k] = [exists |-> TRUE, parts |-> {}]]
        \/ \E part \in {1, 2} :
             cache' = [cache EXCEPT ![k].parts = @ \cup (content[c] \cap {part})]
    BY <1>17 DEF SaveText, OpenCache, WritePart
  <2> HIDE DEF k
  <2>4. cache' \in [Keys -> [exists : BOOLEAN, parts : SUBSET Parts]]
    <3>1. content[c] \in SUBSET Parts
      OBVIOUS
    <3>2. ASSUME NEW part, cache' = [cache EXCEPT ![k].parts = @ \cup (content[c] \cap {part})]
          PROVE  cache' \in [Keys -> [exists : BOOLEAN, parts : SUBSET Parts]]
      <4>1. [cache[k] EXCEPT !.parts = @ \cup (content[c] \cap {part})]
              \in [exists : BOOLEAN, parts : SUBSET Parts]
        BY <2>1, <3>1
      <4>2. cache' = [cache EXCEPT ![k] =
                       [cache[k] EXCEPT !.parts = @ \cup (content[c] \cap {part})]]
        BY <3>2
      <4> HIDE DEF TypeOK
      <4> QED
        BY <2>1, <4>1, <4>2 DEF TypeOK
    <3>3. CASE cache' = [cache EXCEPT ![k] = [exists |-> TRUE, parts |-> {}]]
      BY <2>1, <3>3
    <3> QED
      BY <2>3, <3>2, <3>3
  <2> QED
    BY <2>2, <2>4
<1>18. ASSUME NEW c \in Calls, ConvertToText(c) PROVE TypeOK'
  BY <1>18 DEF ConvertToText, Goto
<1>19. ASSUME NEW c \in Calls, ConvertToTextFails(c) PROVE TypeOK'
  BY <1>19 DEF ConvertToTextFails, Goto
<1>20. ASSUME NEW s \in Servers, Crash(s) PROVE TypeOK'
  BY <1>20 DEF Crash, Goto
<1>21. CASE UNCHANGED vars
  BY <1>21 DEF vars, callVars, processVars, history
<1> QED
  BY <1>1, <1>2, <1>3, <1>4, <1>5, <1>6, <1>7, <1>8, <1>9, <1>10, <1>11, <1>12,
     <1>13, <1>14, <1>15, <1>16, <1>17, <1>18, <1>19, <1>20, <1>21 DEF Next, Step,
     RunSoffice, Convert

-----------------------------------------------------------------------------
(***************************************************************************)
(* The inductive invariant.                                                *)
(***************************************************************************)

\* What a process has written, and when a thread starts one.
ProcessInv ==
  \A c \in Calls :
    /\ process[c] = "none" => output[c] = {}
    /\ process[c] = "ended" => output[c] = Parts \/ c \in cut
    /\ thread[c] \in {"popen", "attribute"} => pc[c] = "join"
    /\ thread[c] = "popen" => process[c] = "none"
    /\ pc[c] \in {"new", "text", "pdf", "start"} => process[c] = "none"

\* Calls of one server that are in the handler together are overlapped.
OverlapInv ==
  \A c, d \in Calls :
    c # d /\ Server(c) = Server(d) /\ pc[c] \in InHandler /\ pc[d] \in InHandler
      => c \in overlapped

\* A call that has the handler for itself finds its own process in the attribute,
\* waits for it, and reads when it has ended or was never started.
AloneInv ==
  \A c \in Calls \ overlapped :
    /\ pc[c] = "join" /\ thread[c] = "attribute" =>
         attr[Server(c)] = c /\ process[c] # "none"
    /\ pc[c] = "join" /\ thread[c] = "waiting" => attr[Server(c)] = c /\ waits[c] = c
    /\ (pc[c] = "join" /\ thread[c] = "ended") \/ pc[c] \in {"read", "del"} =>
         \/ process[c] = "ended" /\ attr[Server(c)] = c
         \/ process[c] = "none" /\ c \in reason
    /\ pc[c] = "del" => output[c] # {}
    /\ pc[c] = "undo" => c \in reason \cup cut

HandlerInv == ProcessInv /\ OverlapInv /\ AloneInv /\ AloneIsSafe

\* A call of a whole document has all of it from when it has read its file.
HasAll == {"del", "openpdf", "convert", "opentext", "done"} \cup Writing

ContentInv ==
  \A c \in Calls :
    Whole(job[c].doc) /\ pc[c] \in HasAll => content[c] = Parts

\* One that writes a file: what is missing in it is still to be written.
WillWrite(c, k) ==
  \/ k = Key(c, "pdf") /\ pc[c] = "pdf1"
  \/ k = Key(c, "pdf") /\ pc[c] = "pdf2" /\ 1 \in cache[k].parts
  \/ k = Key(c, "text") /\ pc[c] = "text1"
  \/ k = Key(c, "text") /\ pc[c] = "text2" /\ 1 \in cache[k].parts

\* However many write a file at once, it is whole when the last of them is done.
CacheInv ==
  \A k \in Keys :
    cache[k].exists /\ Whole(k[2]) =>
      cache[k].parts = Parts \/ \E c \in Calls : WillWrite(c, k)

IInv == TypeOK /\ HandlerInv /\ ContentInv /\ CacheInv

-----------------------------------------------------------------------------
(***************************************************************************)
(* What never changes, and what only grows.                                *)
(***************************************************************************)
LEMMA SameServers ==
  ASSUME TypeOK, [Next]_vars, NEW c
  PROVE  /\ Server(c)' = Server(c)
         /\ \A kind : Key(c, kind)' = Key(c, kind)
  BY JobsStay DEF Server, Key

LEMMA HistoryGrows ==
  ASSUME [Next]_vars
  PROVE  /\ cut \subseteq cut' /\ early \subseteq early' /\ torn \subseteq torn'
         /\ overlapped \subseteq overlapped' /\ reason \subseteq reason'
  BY DEF Next, Step, RunSoffice, Convert, Begin, LookUpText, LookUpPdf, StartThread,
       Popen, PopenFails, Communicate, Communicated, Joined, TimeOut, ReadOutput,
       DeleteAttribute, ProcessWrites, ProcessSucceeds, ProcessDies, SavePdf,
       SaveText, ConvertToText, ConvertToTextFails, Crash, LookUp, OpenCache,
       WritePart, vars, callVars, processVars, history

LEMMA WasWhole ==
  ASSUME TypeOK, [Next]_vars, NEW d, Whole(d)'
  PROVE  Whole(d)
  BY JobsStay, HistoryGrows DEF Whole

-----------------------------------------------------------------------------
(***************************************************************************)
(* The handler.                                                            *)
(***************************************************************************)
LEMMA ProcessNext ==
  ASSUME TypeOK, ProcessInv, [Next]_vars
  PROVE  ProcessInv'
<1> USE JobTypes DEF TypeOK, callVars, processVars, history, ProcessInv
<1>1. ASSUME NEW c \in Calls, Begin(c) PROVE ProcessInv'
  BY <1>1 DEF Begin, Goto
<1>2. ASSUME NEW c \in Calls, LookUpText(c) PROVE ProcessInv'
  BY <1>2 DEF LookUpText, LookUp, Goto
<1>3. ASSUME NEW c \in Calls, LookUpPdf(c) PROVE ProcessInv'
  BY <1>3 DEF LookUpPdf, LookUp, Goto
<1>4. ASSUME NEW c \in Calls, StartThread(c) PROVE ProcessInv'
  BY <1>4 DEF StartThread, Goto
<1>5. ASSUME NEW c \in Calls, Popen(c) PROVE ProcessInv'
  BY <1>5 DEF Popen, Goto
<1>6. ASSUME NEW c \in Calls, PopenFails(c) PROVE ProcessInv'
  BY <1>6 DEF PopenFails, Goto
<1>7. ASSUME NEW c \in Calls, Communicate(c) PROVE ProcessInv'
  BY <1>7 DEF Communicate, Goto
<1>8. ASSUME NEW c \in Calls, Communicated(c) PROVE ProcessInv'
  BY <1>8 DEF Communicated, Goto
<1>9. ASSUME NEW c \in Calls, Joined(c) PROVE ProcessInv'
  BY <1>9 DEF Joined, Goto
<1>10. ASSUME NEW c \in Calls, TimeOut(c) PROVE ProcessInv'
  BY <1>10 DEF TimeOut, Goto
<1>11. ASSUME NEW c \in Calls, ReadOutput(c) PROVE ProcessInv'
  BY <1>11 DEF ReadOutput, Goto
<1>12. ASSUME NEW c \in Calls, DeleteAttribute(c) PROVE ProcessInv'
  BY <1>12 DEF DeleteAttribute, Goto
<1>13. ASSUME NEW c \in Calls, ProcessWrites(c) PROVE ProcessInv'
  BY <1>13 DEF ProcessWrites, Goto
<1>14. ASSUME NEW c \in Calls, ProcessSucceeds(c) PROVE ProcessInv'
  BY <1>14 DEF ProcessSucceeds, Goto
<1>15. ASSUME NEW c \in Calls, ProcessDies(c) PROVE ProcessInv'
  BY <1>15 DEF ProcessDies, Goto
<1>16. ASSUME NEW c \in Calls, SavePdf(c) PROVE ProcessInv'
  BY <1>16 DEF SavePdf, OpenCache, WritePart, Goto
<1>17. ASSUME NEW c \in Calls, SaveText(c) PROVE ProcessInv'
  BY <1>17 DEF SaveText, OpenCache, WritePart, Goto
<1>18. ASSUME NEW c \in Calls, ConvertToText(c) PROVE ProcessInv'
  BY <1>18 DEF ConvertToText, Goto
<1>19. ASSUME NEW c \in Calls, ConvertToTextFails(c) PROVE ProcessInv'
  BY <1>19 DEF ConvertToTextFails, Goto
<1>20. ASSUME NEW s \in Servers, Crash(s) PROVE ProcessInv'
  BY <1>20 DEF Crash, Goto
<1>21. CASE UNCHANGED vars
  BY <1>21 DEF vars, callVars, processVars, history
<1> QED
  BY <1>1, <1>2, <1>3, <1>4, <1>5, <1>6, <1>7, <1>8, <1>9, <1>10, <1>11, <1>12,
     <1>13, <1>14, <1>15, <1>16, <1>17, <1>18, <1>19, <1>20, <1>21 DEF Next, Step,
     RunSoffice, Convert

LEMMA OverlapNext ==
  ASSUME TypeOK, OverlapInv, [Next]_vars
  PROVE  OverlapInv'
<1> SUFFICES ASSUME NEW x \in Calls, NEW y \in Calls, x # y, Server(x) = Server(y),
                    pc'[x] \in InHandler, pc'[y] \in InHandler
             PROVE  x \in overlapped'
  BY SameServers DEF OverlapInv
<1>0. pc[x] \in InHandler /\ pc[y] \in InHandler => x \in overlapped'
  BY HistoryGrows DEF OverlapInv
<1> USE <1>0 DEF TypeOK, callVars, processVars, history, InHandler
<1>1. ASSUME NEW c \in Calls, Begin(c) PROVE x \in overlapped'
  BY <1>1, JobTypes DEF Begin, Goto
<1>2. ASSUME NEW c \in Calls, LookUpText(c) PROVE x \in overlapped'
  BY <1>2 DEF LookUpText, LookUp, Goto
<1>3. ASSUME NEW c \in Calls, LookUpPdf(c) PROVE x \in overlapped'
  BY <1>3 DEF LookUpPdf, LookUp, Goto
<1>4. ASSUME NEW c \in Calls, StartThread(c) PROVE x \in overlapped'
  BY <1>4 DEF StartThread, Goto, Others
<1>5. ASSUME NEW c \in Calls, Popen(c) PROVE x \in overlapped'
  BY <1>5 DEF Popen, Goto
<1>6. ASSUME NEW c \in Calls, PopenFails(c) PROVE x \in overlapped'
  BY <1>6 DEF PopenFails, Goto
<1>7. ASSUME NEW c \in Calls, Communicate(c) PROVE x \in overlapped'
  BY <1>7 DEF Communicate, Goto
<1>8. ASSUME NEW c \in Calls, Communicated(c) PROVE x \in overlapped'
  BY <1>8 DEF Communicated, Goto
<1>9. ASSUME NEW c \in Calls, Joined(c) PROVE x \in overlapped'
  BY <1>9 DEF Joined, Goto
<1>10. ASSUME NEW c \in Calls, TimeOut(c) PROVE x \in overlapped'
  BY <1>10 DEF TimeOut, Goto
<1>11. ASSUME NEW c \in Calls, ReadOutput(c) PROVE x \in overlapped'
  BY <1>11 DEF ReadOutput, Goto
<1>12. ASSUME NEW c \in Calls, DeleteAttribute(c) PROVE x \in overlapped'
  BY <1>12 DEF DeleteAttribute, Goto
<1>13. ASSUME NEW c \in Calls, ProcessWrites(c) PROVE x \in overlapped'
  BY <1>13 DEF ProcessWrites, Goto
<1>14. ASSUME NEW c \in Calls, ProcessSucceeds(c) PROVE x \in overlapped'
  BY <1>14 DEF ProcessSucceeds, Goto
<1>15. ASSUME NEW c \in Calls, ProcessDies(c) PROVE x \in overlapped'
  BY <1>15 DEF ProcessDies, Goto
<1>16. ASSUME NEW c \in Calls, SavePdf(c) PROVE x \in overlapped'
  BY <1>16 DEF SavePdf, OpenCache, WritePart, Goto
<1>17. ASSUME NEW c \in Calls, SaveText(c) PROVE x \in overlapped'
  BY <1>17 DEF SaveText, OpenCache, WritePart, Goto
<1>18. ASSUME NEW c \in Calls, ConvertToText(c) PROVE x \in overlapped'
  BY <1>18 DEF ConvertToText, Goto
<1>19. ASSUME NEW c \in Calls, ConvertToTextFails(c) PROVE x \in overlapped'
  BY <1>19 DEF ConvertToTextFails, Goto
<1>20. ASSUME NEW s \in Servers, Crash(s) PROVE x \in overlapped'
  BY <1>20 DEF Crash, Goto
<1>21. CASE UNCHANGED vars
  BY <1>21 DEF vars, callVars, processVars, history
<1> QED
  BY <1>1, <1>2, <1>3, <1>4, <1>5, <1>6, <1>7, <1>8, <1>9, <1>10, <1>11, <1>12,
     <1>13, <1>14, <1>15, <1>16, <1>17, <1>18, <1>19, <1>20, <1>21 DEF Next, Step,
     RunSoffice, Convert

LEMMA AloneNext ==
  ASSUME TypeOK, HandlerInv, [Next]_vars
  PROVE  AloneInv'
<1> SUFFICES ASSUME NEW x \in Calls \ overlapped'
             PROVE  /\ pc'[x] = "join" /\ thread'[x] = "attribute" =>
                         attr'[Server(x)] = x /\ process'[x] # "none"
                    /\ pc'[x] = "join" /\ thread'[x] = "waiting" =>
                         attr'[Server(x)] = x /\ waits'[x] = x
                    /\ (pc'[x] = "join" /\ thread'[x] = "ended") \/ pc'[x] \in {"read", "del"} =>
                         \/ process'[x] = "ended" /\ attr'[Server(x)] = x
                         \/ process'[x] = "none" /\ x \in reason'
                    /\ pc'[x] = "del" => output'[x] # {}
                    /\ pc'[x] = "undo" => x \in reason' \cup cut'
  BY SameServers DEF AloneInv
<1> DEFINE Goal == /\ pc'[x] = "join" /\ thread'[x] = "attribute" =>
                         attr'[Server(x)] = x /\ process'[x] # "none"
                   /\ pc'[x] = "join" /\ thread'[x] = "waiting" =>
                         attr'[Server(x)] = x /\ waits'[x] = x
                   /\ (pc'[x] = "join" /\ thread'[x] = "ended") \/ pc'[x] \in {"read", "del"} =>
                         \/ process'[x] = "ended" /\ attr'[Server(x)] = x
                         \/ process'[x] = "none" /\ x \in reason'
                   /\ pc'[x] = "del" => output'[x] # {}
                   /\ pc'[x] = "undo" => x \in reason' \cup cut'
<1>0. /\ x \notin overlapped
      /\ pc[x] = "join" /\ thread[x] = "attribute" =>
            attr[Server(x)] = x /\ process[x] # "none"
      /\ pc[x] = "join" /\ thread[x] = "waiting" => attr[Server(x)] = x /\ waits[x] = x
      /\ (pc[x] = "join" /\ thread[x] = "ended") \/ pc[x] \in {"read", "del"} =>
            \/ process[x] = "ended" /\ attr[Server(x)] = x
            \/ process[x] = "none" /\ x \in reason
      /\ pc[x] = "del" => output[x] # {}
      /\ pc[x] = "undo" => x \in reason \cup cut
  BY HistoryGrows DEF HandlerInv, AloneInv
<1>a. ASSUME NEW c \in Calls, c # x, Server(c) = Server(x), pc[x] \in InHandler
      PROVE  pc[c] \notin InHandler /\ thread[c] # "popen"
  BY <1>0, <1>a DEF HandlerInv, OverlapInv, ProcessInv, InHandler
<1>b. /\ process[x] = "none" => output[x] = {}
      /\ process[x] = "ended" => output[x] = Parts \/ x \in cut
      /\ thread[x] \in {"popen", "attribute"} => pc[x] = "join"
      /\ thread[x] = "popen" => process[x] = "none"
      /\ pc[x] = "start" => process[x] = "none"
      /\ x # None
  BY ConversionAssumption DEF HandlerInv, ProcessInv
<1> USE <1>0, <1>b, JobTypes, HistoryGrows
        DEF TypeOK, callVars, processVars, history, InHandler, Active
<1>1. ASSUME NEW c \in Calls, Begin(c) PROVE Goal
  BY <1>1 DEF Begin, Goto
<1>2. ASSUME NEW c \in Calls, LookUpText(c) PROVE Goal
  BY <1>2 DEF LookUpText, LookUp, Goto
<1>3. ASSUME NEW c \in Calls, LookUpPdf(c) PROVE Goal
  BY <1>3 DEF LookUpPdf, LookUp, Goto
<1>4. ASSUME NEW c \in Calls, StartThread(c) PROVE Goal
  BY <1>4 DEF StartThread, Goto
<1>5. ASSUME NEW c \in Calls, Popen(c) PROVE Goal
  <2>1. CASE c = x
    BY <1>5, <2>1 DEF Popen, Goto
  <2>2. CASE c # x
    <3>1. pc[x] \in InHandler => attr'[Server(x)] = attr[Server(x)]
      BY <1>a, <1>5, <2>2 DEF Popen, Goto
    <3>2. /\ pc'[x] = pc[x] /\ thread'[x] = thread[x] /\ waits'[x] = waits[x]
          /\ process'[x] = process[x] /\ output'[x] = output[x]
      BY <1>5, <2>2 DEF Popen, Goto
    <3> QED
      BY <3>1, <3>2
  <2> QED
    BY <2>1, <2>2
<1>6. ASSUME NEW c \in Calls, PopenFails(c) PROVE Goal
  <2>1. CASE c = x
    BY <1>6, <2>1 DEF PopenFails, Goto
  <2>2. CASE c # x
    <3>1. pc[x] \in InHandler => attr'[Server(x)] = attr[Server(x)]
      BY <1>a, <1>6, <2>2 DEF PopenFails, Goto
    <3>2. /\ pc'[x] = pc[x] /\ thread'[x] = thread[x] /\ waits'[x] = waits[x]
          /\ process'[x] = process[x] /\ output'[x] = output[x]
      BY <1>6, <2>2 DEF PopenFails, Goto
    <3> QED
      BY <3>1, <3>2
  <2> QED
    BY <2>1, <2>2
<1>7. ASSUME NEW c \in Calls, Communicate(c) PROVE Goal
  <2>1. CASE c = x
    BY <1>7, <2>1 DEF Communicate, Goto
  <2>2. CASE c # x
    <3>1. pc[x] \in InHandler => attr'[Server(x)] = attr[Server(x)]
      BY <1>a, <1>7, <2>2 DEF Communicate, Goto
    <3>2. /\ pc'[x] = pc[x] /\ thread'[x] = thread[x] /\ waits'[x] = waits[x]
          /\ process'[x] = process[x] /\ output'[x] = output[x]
      BY <1>7, <2>2 DEF Communicate, Goto
    <3> QED
      BY <3>1, <3>2
  <2> QED
    BY <2>1, <2>2
<1>8. ASSUME NEW c \in Calls, Communicated(c) PROVE Goal
  BY <1>8 DEF Communicated, Goto
<1>9. ASSUME NEW c \in Calls, Joined(c) PROVE Goal
  BY <1>9 DEF Joined, Goto
<1>10. ASSUME NEW c \in Calls, TimeOut(c) PROVE Goal
  BY <1>10 DEF TimeOut, Goto
<1>11. ASSUME NEW c \in Calls, ReadOutput(c) PROVE Goal
  <2>1. CASE c = x
    BY <1>11, <2>1 DEF ReadOutput, Goto, Parts
  <2>2. CASE c # x
    <3>1. pc[x] \in InHandler => attr'[Server(x)] = attr[Server(x)]
      BY <1>a, <1>11, <2>2 DEF ReadOutput, Goto
    <3>2. /\ pc'[x] = pc[x] /\ thread'[x] = thread[x] /\ waits'[x] = waits[x]
          /\ process'[x] = process[x] /\ output'[x] = output[x]
      BY <1>11, <2>2 DEF ReadOutput, Goto
    <3> QED
      BY <3>1, <3>2
  <2> QED
    BY <2>1, <2>2
<1>12. ASSUME NEW c \in Calls, DeleteAttribute(c) PROVE Goal
  <2>1. CASE c = x
    BY <1>12, <2>1 DEF DeleteAttribute, Goto
  <2>2. CASE c # x
    <3>1. pc[x] \in InHandler => attr'[Server(x)] = attr[Server(x)]
      BY <1>a, <1>12, <2>2 DEF DeleteAttribute, Goto
    <3>2. /\ pc'[x] = pc[x] /\ thread'[x] = thread[x] /\ waits'[x] = waits[x]
          /\ process'[x] = process[x] /\ output'[x] = output[x]
      BY <1>12, <2>2 DEF DeleteAttribute, Goto
    <3> QED
      BY <3>1, <3>2
  <2> QED
    BY <2>1, <2>2
<1>13. ASSUME NEW c \in Calls, ProcessWrites(c) PROVE Goal
  BY <1>13 DEF ProcessWrites, Goto
<1>14. ASSUME NEW c \in Calls, ProcessSucceeds(c) PROVE Goal
  BY <1>14 DEF ProcessSucceeds, Goto
<1>15. ASSUME NEW c \in Calls, ProcessDies(c) PROVE Goal
  BY <1>15 DEF ProcessDies, Goto
<1>16. ASSUME NEW c \in Calls, SavePdf(c) PROVE Goal
  BY <1>16 DEF SavePdf, OpenCache, WritePart, Goto
<1>17. ASSUME NEW c \in Calls, SaveText(c) PROVE Goal
  BY <1>17 DEF SaveText, OpenCache, WritePart, Goto
<1>18. ASSUME NEW c \in Calls, ConvertToText(c) PROVE Goal
  BY <1>18 DEF ConvertToText, Goto
<1>19. ASSUME NEW c \in Calls, ConvertToTextFails(c) PROVE Goal
  BY <1>19 DEF ConvertToTextFails, Goto
<1>20. ASSUME NEW s \in Servers, Crash(s) PROVE Goal
  BY <1>20 DEF Crash, Goto
<1>21. CASE UNCHANGED vars
  BY <1>21 DEF vars, callVars, processVars, history
<1> QED
  BY <1>1, <1>2, <1>3, <1>4, <1>5, <1>6, <1>7, <1>8, <1>9, <1>10, <1>11, <1>12,
     <1>13, <1>14, <1>15, <1>16, <1>17, <1>18, <1>19, <1>20, <1>21 DEF Next, Step,
     RunSoffice, Convert

LEMMA SafeNext ==
  ASSUME TypeOK, HandlerInv, AloneInv', ProcessInv', [Next]_vars
  PROVE  AloneIsSafe'
<1> SUFFICES ASSUME NEW x \in Calls \ overlapped'
             PROVE  /\ pc'[x] = "failed" => x \in reason' \cup cut'
                    /\ x \notin early'
                    /\ process'[x] = "running" => pc'[x] \in {"join", "dead"}
  BY DEF AloneIsSafe
<1> DEFINE Goal == /\ pc'[x] = "failed" => x \in reason' \cup cut'
                   /\ x \notin early'
                   /\ process'[x] = "running" => pc'[x] \in {"join", "dead"}
<1>0. /\ x \notin overlapped /\ x \notin early
      /\ pc[x] = "failed" => x \in reason' \cup cut'
      /\ process[x] = "running" => pc[x] \in {"join", "dead"}
      /\ pc[x] = "undo" => x \in reason' \cup cut'
  BY HistoryGrows DEF HandlerInv, AloneInv, AloneIsSafe
<1>a. /\ pc[x] = "join" /\ thread[x] = "waiting" => attr[Server(x)] = x
      /\ (pc[x] = "join" /\ thread[x] = "ended") \/ pc[x] \in {"read", "del"} =>
            \/ process[x] = "ended" /\ attr[Server(x)] = x
            \/ process[x] = "none" /\ output[x] = {}
      /\ pc[x] = "del" => output[x] # {}
      /\ thread[x] \in {"popen", "attribute"} => pc[x] = "join"
      /\ x # None
  BY <1>0, ConversionAssumption DEF HandlerInv, AloneInv, ProcessInv
<1> USE <1>0, <1>a, JobTypes, HistoryGrows
        DEF TypeOK, callVars, processVars, history, Active
<1>1. ASSUME NEW c \in Calls, Begin(c) PROVE Goal
  BY <1>1 DEF Begin, Goto
<1>2. ASSUME NEW c \in Calls, LookUpText(c) PROVE Goal
  BY <1>2 DEF LookUpText, LookUp, Goto
<1>3. ASSUME NEW c \in Calls, LookUpPdf(c) PROVE Goal
  BY <1>3 DEF LookUpPdf, LookUp, Goto
<1>4. ASSUME NEW c \in Calls, StartThread(c) PROVE Goal
  BY <1>4 DEF StartThread, Goto
<1>5. ASSUME NEW c \in Calls, Popen(c) PROVE Goal
  BY <1>5 DEF Popen, Goto
<1>6. ASSUME NEW c \in Calls, PopenFails(c) PROVE Goal
  BY <1>6 DEF PopenFails, Goto
<1>7. ASSUME NEW c \in Calls, Communicate(c) PROVE Goal
  BY <1>7 DEF Communicate, Goto
<1>8. ASSUME NEW c \in Calls, Communicated(c) PROVE Goal
  BY <1>8 DEF Communicated, Goto
<1>9. ASSUME NEW c \in Calls, Joined(c) PROVE Goal
  BY <1>9 DEF Joined, Goto
<1>10. ASSUME NEW c \in Calls, TimeOut(c) PROVE Goal
  BY <1>10 DEF TimeOut, Goto
<1>11. ASSUME NEW c \in Calls, ReadOutput(c) PROVE Goal
  BY <1>11 DEF ReadOutput, Goto
<1>12. ASSUME NEW c \in Calls, DeleteAttribute(c) PROVE Goal
  BY <1>12 DEF DeleteAttribute, Goto
<1>13. ASSUME NEW c \in Calls, ProcessWrites(c) PROVE Goal
  BY <1>13 DEF ProcessWrites, Goto
<1>14. ASSUME NEW c \in Calls, ProcessSucceeds(c) PROVE Goal
  BY <1>14 DEF ProcessSucceeds, Goto
<1>15. ASSUME NEW c \in Calls, ProcessDies(c) PROVE Goal
  BY <1>15 DEF ProcessDies, Goto
<1>16. ASSUME NEW c \in Calls, SavePdf(c) PROVE Goal
  BY <1>16 DEF SavePdf, OpenCache, WritePart, Goto
<1>17. ASSUME NEW c \in Calls, SaveText(c) PROVE Goal
  BY <1>17 DEF SaveText, OpenCache, WritePart, Goto
<1>18. ASSUME NEW c \in Calls, ConvertToText(c) PROVE Goal
  BY <1>18 DEF ConvertToText, Goto
<1>19. ASSUME NEW c \in Calls, ConvertToTextFails(c) PROVE Goal
  BY <1>19 DEF ConvertToTextFails, Goto
<1>20. ASSUME NEW s \in Servers, Crash(s) PROVE Goal
  BY <1>20 DEF Crash, Goto
<1>21. CASE UNCHANGED vars
  BY <1>21 DEF vars, callVars, processVars, history
<1> QED
  BY <1>1, <1>2, <1>3, <1>4, <1>5, <1>6, <1>7, <1>8, <1>9, <1>10, <1>11, <1>12,
     <1>13, <1>14, <1>15, <1>16, <1>17, <1>18, <1>19, <1>20, <1>21 DEF Next, Step,
     RunSoffice, Convert

LEMMA HandlerNext == TypeOK /\ HandlerInv /\ [Next]_vars => HandlerInv'
  BY ProcessNext, OverlapNext, AloneNext, SafeNext DEF HandlerInv

-----------------------------------------------------------------------------
(***************************************************************************)
(* What calls return.                                                      *)
(***************************************************************************)
LEMMA ContentNext ==
  ASSUME TypeOK, HandlerInv, ContentInv, [Next]_vars
  PROVE  ContentInv'
<1> SUFFICES ASSUME NEW x \in Calls, Whole(job[x].doc)'
             PROVE  pc'[x] \in HasAll => content'[x] = Parts
  BY JobsStay DEF ContentInv
<1>0. /\ pc[x] \in HasAll => content[x] = Parts
      /\ job[x].doc \notin torn' /\ x \notin cut /\ x \notin early'
      /\ process[x] = "none" => output[x] = {}
      /\ process[x] = "ended" => output[x] = Parts
  <2>1. Whole(job[x].doc)
    BY JobsStay, HistoryGrows DEF Whole
  <2>2. job'[x].doc \notin torn' /\ x \notin cut' /\ x \notin early'
    BY JobsStay DEF Whole
  <2> QED
    BY <2>1, <2>2, JobsStay, HistoryGrows DEF ContentInv, HandlerInv, ProcessInv
<1> USE <1>0, JobTypes DEF TypeOK, callVars, processVars, history, HasAll, Writing
<1>1. ASSUME NEW c \in Calls, Begin(c) PROVE pc'[x] \in HasAll => content'[x] = Parts
  BY <1>1 DEF Begin, Goto
<1>2. ASSUME NEW c \in Calls, LookUpText(c) PROVE pc'[x] \in HasAll => content'[x] = Parts
  <2>1. CASE c = x
    BY <1>2, <2>1, JobsStay DEF LookUpText, LookUp, Goto, Written
  <2>2. CASE c # x
    BY <1>2, <2>2 DEF LookUpText, LookUp, Goto
  <2> QED
    BY <2>1, <2>2
<1>3. ASSUME NEW c \in Calls, LookUpPdf(c) PROVE pc'[x] \in HasAll => content'[x] = Parts
  <2>1. CASE c = x
    BY <1>3, <2>1, JobsStay DEF LookUpPdf, LookUp, Goto, Written
  <2>2. CASE c # x
    BY <1>3, <2>2 DEF LookUpPdf, LookUp, Goto
  <2> QED
    BY <2>1, <2>2
<1>4. ASSUME NEW c \in Calls, StartThread(c) PROVE pc'[x] \in HasAll => content'[x] = Parts
  BY <1>4 DEF StartThread, Goto
<1>5. ASSUME NEW c \in Calls, Popen(c) PROVE pc'[x] \in HasAll => content'[x] = Parts
  BY <1>5 DEF Popen, Goto
<1>6. ASSUME NEW c \in Calls, PopenFails(c) PROVE pc'[x] \in HasAll => content'[x] = Parts
  BY <1>6 DEF PopenFails, Goto
<1>7. ASSUME NEW c \in Calls, Communicate(c) PROVE pc'[x] \in HasAll => content'[x] = Parts
  BY <1>7 DEF Communicate, Goto
<1>8. ASSUME NEW c \in Calls, Communicated(c) PROVE pc'[x] \in HasAll => content'[x] = Parts
  BY <1>8 DEF Communicated, Goto
<1>9. ASSUME NEW c \in Calls, Joined(c) PROVE pc'[x] \in HasAll => content'[x] = Parts
  BY <1>9 DEF Joined, Goto
<1>10. ASSUME NEW c \in Calls, TimeOut(c) PROVE pc'[x] \in HasAll => content'[x] = Parts
  BY <1>10 DEF TimeOut, Goto
<1>11. ASSUME NEW c \in Calls, ReadOutput(c) PROVE pc'[x] \in HasAll => content'[x] = Parts
  BY <1>11 DEF ReadOutput, Goto
<1>12. ASSUME NEW c \in Calls, DeleteAttribute(c) PROVE pc'[x] \in HasAll => content'[x] = Parts
  BY <1>12 DEF DeleteAttribute, Goto
<1>13. ASSUME NEW c \in Calls, ProcessWrites(c) PROVE pc'[x] \in HasAll => content'[x] = Parts
  BY <1>13 DEF ProcessWrites, Goto
<1>14. ASSUME NEW c \in Calls, ProcessSucceeds(c) PROVE pc'[x] \in HasAll => content'[x] = Parts
  BY <1>14 DEF ProcessSucceeds, Goto
<1>15. ASSUME NEW c \in Calls, ProcessDies(c) PROVE pc'[x] \in HasAll => content'[x] = Parts
  BY <1>15 DEF ProcessDies, Goto
<1>16. ASSUME NEW c \in Calls, SavePdf(c) PROVE pc'[x] \in HasAll => content'[x] = Parts
  BY <1>16 DEF SavePdf, OpenCache, WritePart, Goto
<1>17. ASSUME NEW c \in Calls, SaveText(c) PROVE pc'[x] \in HasAll => content'[x] = Parts
  BY <1>17 DEF SaveText, OpenCache, WritePart, Goto
<1>18. ASSUME NEW c \in Calls, ConvertToText(c) PROVE pc'[x] \in HasAll => content'[x] = Parts
  BY <1>18 DEF ConvertToText, Goto
<1>19. ASSUME NEW c \in Calls, ConvertToTextFails(c) PROVE pc'[x] \in HasAll => content'[x] = Parts
  BY <1>19 DEF ConvertToTextFails, Goto
<1>20. ASSUME NEW s \in Servers, Crash(s) PROVE pc'[x] \in HasAll => content'[x] = Parts
  BY <1>20 DEF Crash, Goto
<1>21. CASE UNCHANGED vars
  BY <1>21 DEF vars, callVars, processVars, history
<1> QED
  BY <1>1, <1>2, <1>3, <1>4, <1>5, <1>6, <1>7, <1>8, <1>9, <1>10, <1>11, <1>12,
     <1>13, <1>14, <1>15, <1>16, <1>17, <1>18, <1>19, <1>20, <1>21 DEF Next, Step,
     RunSoffice, Convert

LEMMA CacheNext ==
  ASSUME TypeOK, HandlerInv, ContentInv, CacheInv, [Next]_vars
  PROVE  CacheInv'
<1> SUFFICES ASSUME NEW k \in Keys, cache'[k].exists, Whole(k[2])'
             PROVE  cache'[k].parts = Parts \/ \E c \in Calls : WillWrite(c, k)'
  BY DEF CacheInv
<1> DEFINE Goal == cache'[k].parts = Parts \/ \E c \in Calls : WillWrite(c, k)'
<1>0. /\ Whole(k[2]) /\ k[2] \notin torn'
      /\ cache[k].exists => cache[k].parts = Parts \/ \E c \in Calls : WillWrite(c, k)
  BY WasWhole DEF CacheInv, Whole
<1>a. ASSUME cache' = cache,
             \A d \in Calls : pc[d] \in Writing /\ WillWrite(d, k) => pc'[d] = pc[d]
      PROVE  Goal
  <2>1. \A d \in Calls : WillWrite(d, k) => WillWrite(d, k)'
    BY <1>a, SameServers DEF WillWrite, Writing
  <2> QED
    BY <1>0, <1>a, <2>1
<1> USE DEF TypeOK, callVars, processVars, history
<1>1. ASSUME NEW c \in Calls, Begin(c) PROVE Goal
  <2>1. cache' = cache /\ \A d \in Calls : pc[d] \in Writing => pc'[d] = pc[d]
    BY <1>1, JobTypes DEF Begin, Goto, Writing
  <2> QED
    BY <1>a, <2>1
<1>2. ASSUME NEW c \in Calls, LookUpText(c) PROVE Goal
  <2>1. cache' = cache /\ \A d \in Calls : pc[d] \in Writing => pc'[d] = pc[d]
    BY <1>2, JobTypes DEF LookUpText, Goto, LookUp, Writing
  <2> QED
    BY <1>a, <2>1
<1>3. ASSUME NEW c \in Calls, LookUpPdf(c) PROVE Goal
  <2>1. cache' = cache /\ \A d \in Calls : pc[d] \in Writing => pc'[d] = pc[d]
    BY <1>3, JobTypes DEF LookUpPdf, Goto, LookUp, Writing
  <2> QED
    BY <1>a, <2>1
<1>4. ASSUME NEW c \in Calls, StartThread(c) PROVE Goal
  <2>1. cache' = cache /\ \A d \in Calls : pc[d] \in Writing => pc'[d] = pc[d]
    BY <1>4, JobTypes DEF StartThread, Goto, Writing
  <2> QED
    BY <1>a, <2>1
<1>5. ASSUME NEW c \in Calls, Popen(c) PROVE Goal
  <2>1. cache' = cache /\ \A d \in Calls : pc[d] \in Writing => pc'[d] = pc[d]
    BY <1>5, JobTypes DEF Popen, Goto, Writing
  <2> QED
    BY <1>a, <2>1
<1>6. ASSUME NEW c \in Calls, PopenFails(c) PROVE Goal
  <2>1. cache' = cache /\ \A d \in Calls : pc[d] \in Writing => pc'[d] = pc[d]
    BY <1>6, JobTypes DEF PopenFails, Goto, Writing
  <2> QED
    BY <1>a, <2>1
<1>7. ASSUME NEW c \in Calls, Communicate(c) PROVE Goal
  <2>1. cache' = cache /\ \A d \in Calls : pc[d] \in Writing => pc'[d] = pc[d]
    BY <1>7, JobTypes DEF Communicate, Goto, Writing
  <2> QED
    BY <1>a, <2>1
<1>8. ASSUME NEW c \in Calls, Communicated(c) PROVE Goal
  <2>1. cache' = cache /\ \A d \in Calls : pc[d] \in Writing => pc'[d] = pc[d]
    BY <1>8, JobTypes DEF Communicated, Goto, Writing
  <2> QED
    BY <1>a, <2>1
<1>9. ASSUME NEW c \in Calls, Joined(c) PROVE Goal
  <2>1. cache' = cache /\ \A d \in Calls : pc[d] \in Writing => pc'[d] = pc[d]
    BY <1>9, JobTypes DEF Joined, Goto, Writing
  <2> QED
    BY <1>a, <2>1
<1>10. ASSUME NEW c \in Calls, TimeOut(c) PROVE Goal
  <2>1. cache' = cache /\ \A d \in Calls : pc[d] \in Writing => pc'[d] = pc[d]
    BY <1>10, JobTypes DEF TimeOut, Goto, Writing
  <2> QED
    BY <1>a, <2>1
<1>11. ASSUME NEW c \in Calls, ReadOutput(c) PROVE Goal
  <2>1. cache' = cache /\ \A d \in Calls : pc[d] \in Writing => pc'[d] = pc[d]
    BY <1>11, JobTypes DEF ReadOutput, Goto, Writing
  <2> QED
    BY <1>a, <2>1
<1>12. ASSUME NEW c \in Calls, DeleteAttribute(c) PROVE Goal
  <2>1. cache' = cache /\ \A d \in Calls : pc[d] \in Writing => pc'[d] = pc[d]
    BY <1>12, JobTypes DEF DeleteAttribute, Goto, Writing
  <2> QED
    BY <1>a, <2>1
<1>13. ASSUME NEW c \in Calls, ProcessWrites(c) PROVE Goal
  <2>1. cache' = cache /\ \A d \in Calls : pc[d] \in Writing => pc'[d] = pc[d]
    BY <1>13, JobTypes DEF ProcessWrites, Goto, Writing
  <2> QED
    BY <1>a, <2>1
<1>14. ASSUME NEW c \in Calls, ProcessSucceeds(c) PROVE Goal
  <2>1. cache' = cache /\ \A d \in Calls : pc[d] \in Writing => pc'[d] = pc[d]
    BY <1>14, JobTypes DEF ProcessSucceeds, Goto, Writing
  <2> QED
    BY <1>a, <2>1
<1>15. ASSUME NEW c \in Calls, ProcessDies(c) PROVE Goal
  <2>1. cache' = cache /\ \A d \in Calls : pc[d] \in Writing => pc'[d] = pc[d]
    BY <1>15, JobTypes DEF ProcessDies, Goto, Writing
  <2> QED
    BY <1>a, <2>1
<1>16. ASSUME NEW c \in Calls, SavePdf(c) PROVE Goal
  <2> DEFINE own == Key(c, "pdf")
  <2>1. CASE k # own
    <3>1. cache'[k] = cache[k]
      BY <1>16, <2>1 DEF SavePdf, OpenCache, WritePart
    <3>2. ASSUME NEW d \in Calls, WillWrite(d, k) PROVE WillWrite(d, k)'
      <4>1. d # c
        BY <1>16, <2>1, <3>2 DEF SavePdf, OpenCache, WritePart, Goto, WillWrite
      <4>2. pc'[d] = pc[d]
        BY <1>16, <4>1 DEF SavePdf, OpenCache, WritePart, Goto
      <4>3. /\ Key(d, "pdf")' = Key(d, "pdf") /\ Key(d, "text")' = Key(d, "text")
            /\ cache'[k].parts = cache[k].parts
        BY <3>1, SameServers
      <4> QED
        BY <3>2, <4>2, <4>3 DEF WillWrite
    <3> QED
      BY <1>0, <3>1, <3>2
  <2>2. CASE k = own
    <3>0. content[c] = Parts \/ pc[c] \notin HasAll
      BY <1>0, <2>2 DEF Key, ContentInv
    <3>1. CASE OpenCache(c, "pdf", "openpdf", "pdf1")
      <4>1. pc'[c] = "pdf1"
        BY <3>1 DEF OpenCache, Goto
      <4>2. WillWrite(c, k)'
        BY <2>2, <4>1, SameServers DEF WillWrite
      <4> QED
        BY <4>2
    <3>2. CASE WritePart(c, "pdf", 1, "pdf1", "pdf2")
      <4>1. /\ pc'[c] = "pdf2" /\ content[c] = Parts
            /\ cache'[k].parts = cache[k].parts \cup {1}
        BY <2>2, <3>0, <3>2 DEF WritePart, Goto, HasAll, Writing, Parts
      <4>2. WillWrite(c, k)'
        BY <2>2, <4>1, SameServers DEF WillWrite
      <4> QED
        BY <4>2
    <3>3. CASE \E to : WritePart(c, "pdf", 2, "pdf2", to)
      <4>1. /\ pc[c] = "pdf2" /\ content[c] = Parts
            /\ cache'[k].parts = cache[k].parts \cup {2}
            /\ cache'[k].exists = cache[k].exists
            /\ \A d \in Calls : d # c => pc'[d] = pc[d]
        <5>1. PICK to : WritePart(c, "pdf", 2, "pdf2", to)
          BY <3>3
        <5>2. pc[c] = "pdf2" /\ pc' = [pc EXCEPT ![c] = to]
          BY <5>1 DEF WritePart, Goto
        <5>3. content[c] = Parts
          BY <3>0, <5>2 DEF HasAll, Writing
        <5>4. cache' = [cache EXCEPT ![k].parts = @ \cup (content[c] \cap {2})]
          BY <2>2, <5>1 DEF WritePart
        <5>5. content[c] \cap {2} = {2}
          BY <5>3 DEF Parts
        <5>6. cache[k] \in [exists : BOOLEAN, parts : SUBSET Parts] /\ k \in Keys
          OBVIOUS
        <5>7. \A d \in Calls : d # c => pc'[d] = pc[d]
          BY <5>2
        <5>8. cache'[k].parts = cache[k].parts \cup {2} /\ cache'[k].exists = cache[k].exists
          BY <5>4, <5>5, <5>6
        <5> QED
          BY <5>2, <5>3, <5>7, <5>8
      <4>2. CASE cache[k].parts = Parts
        BY <4>1, <4>2 DEF Parts
      <4>3. CASE WillWrite(c, k)
        <5>1. 1 \in cache[k].parts
          BY <2>2, <4>1, <4>3 DEF WillWrite, Key
        <5> QED
          BY <4>1, <5>1 DEF Parts
      <4>4. ASSUME NEW d \in Calls, d # c, WillWrite(d, k) PROVE WillWrite(d, k)'
        <5>1. /\ Key(d, "pdf")' = Key(d, "pdf") /\ Key(d, "text")' = Key(d, "text")
              /\ cache[k].parts \subseteq cache'[k].parts /\ pc'[d] = pc[d]
          BY <4>1, <4>4, SameServers
        <5> QED
          BY <4>4, <5>1 DEF WillWrite
      <4> QED
        BY <1>0, <4>1, <4>2, <4>3, <4>4
    <3> QED
      BY <1>16, <3>1, <3>2, <3>3 DEF SavePdf
  <2> QED
    BY <2>1, <2>2
<1>17. ASSUME NEW c \in Calls, SaveText(c) PROVE Goal
  <2> DEFINE own == Key(c, "text")
  <2>1. CASE k # own
    <3>1. cache'[k] = cache[k]
      BY <1>17, <2>1 DEF SaveText, OpenCache, WritePart
    <3>2. ASSUME NEW d \in Calls, WillWrite(d, k) PROVE WillWrite(d, k)'
      <4>1. d # c
        BY <1>17, <2>1, <3>2 DEF SaveText, OpenCache, WritePart, Goto, WillWrite
      <4>2. pc'[d] = pc[d]
        BY <1>17, <4>1 DEF SaveText, OpenCache, WritePart, Goto
      <4>3. /\ Key(d, "pdf")' = Key(d, "pdf") /\ Key(d, "text")' = Key(d, "text")
            /\ cache'[k].parts = cache[k].parts
        BY <3>1, SameServers
      <4> QED
        BY <3>2, <4>2, <4>3 DEF WillWrite
    <3> QED
      BY <1>0, <3>1, <3>2
  <2>2. CASE k = own
    <3>0. content[c] = Parts \/ pc[c] \notin HasAll
      BY <1>0, <2>2 DEF Key, ContentInv
    <3>1. CASE OpenCache(c, "text", "opentext", "text1")
      <4>1. pc'[c] = "text1"
        BY <3>1 DEF OpenCache, Goto
      <4>2. WillWrite(c, k)'
        BY <2>2, <4>1, SameServers DEF WillWrite
      <4> QED
        BY <4>2
    <3>2. CASE WritePart(c, "text", 1, "text1", "text2")
      <4>1. /\ pc'[c] = "text2" /\ content[c] = Parts
            /\ cache'[k].parts = cache[k].parts \cup {1}
        BY <2>2, <3>0, <3>2 DEF WritePart, Goto, HasAll, Writing, Parts
      <4>2. WillWrite(c, k)'
        BY <2>2, <4>1, SameServers DEF WillWrite
      <4> QED
        BY <4>2
    <3>3. CASE \E to : WritePart(c, "text", 2, "text2", to)
      <4>1. /\ pc[c] = "text2" /\ content[c] = Parts
            /\ cache'[k].parts = cache[k].parts \cup {2}
            /\ cache'[k].exists = cache[k].exists
            /\ \A d \in Calls : d # c => pc'[d] = pc[d]
        <5>1. PICK to : WritePart(c, "text", 2, "text2", to)
          BY <3>3
        <5>2. pc[c] = "text2" /\ pc' = [pc EXCEPT ![c] = to]
          BY <5>1 DEF WritePart, Goto
        <5>3. content[c] = Parts
          BY <3>0, <5>2 DEF HasAll, Writing
        <5>4. cache' = [cache EXCEPT ![k].parts = @ \cup (content[c] \cap {2})]
          BY <2>2, <5>1 DEF WritePart
        <5>5. content[c] \cap {2} = {2}
          BY <5>3 DEF Parts
        <5>6. cache[k] \in [exists : BOOLEAN, parts : SUBSET Parts] /\ k \in Keys
          OBVIOUS
        <5>7. \A d \in Calls : d # c => pc'[d] = pc[d]
          BY <5>2
        <5>8. cache'[k].parts = cache[k].parts \cup {2} /\ cache'[k].exists = cache[k].exists
          BY <5>4, <5>5, <5>6
        <5> QED
          BY <5>2, <5>3, <5>7, <5>8
      <4>2. CASE cache[k].parts = Parts
        BY <4>1, <4>2 DEF Parts
      <4>3. CASE WillWrite(c, k)
        <5>1. 1 \in cache[k].parts
          BY <2>2, <4>1, <4>3 DEF WillWrite, Key
        <5> QED
          BY <4>1, <5>1 DEF Parts
      <4>4. ASSUME NEW d \in Calls, d # c, WillWrite(d, k) PROVE WillWrite(d, k)'
        <5>1. /\ Key(d, "pdf")' = Key(d, "pdf") /\ Key(d, "text")' = Key(d, "text")
              /\ cache[k].parts \subseteq cache'[k].parts /\ pc'[d] = pc[d]
          BY <4>1, <4>4, SameServers
        <5> QED
          BY <4>4, <5>1 DEF WillWrite
      <4> QED
        BY <1>0, <4>1, <4>2, <4>3, <4>4
    <3> QED
      BY <1>17, <3>1, <3>2, <3>3 DEF SaveText
  <2> QED
    BY <2>1, <2>2
<1>18. ASSUME NEW c \in Calls, ConvertToText(c) PROVE Goal
  <2>1. cache' = cache /\ \A d \in Calls : pc[d] \in Writing => pc'[d] = pc[d]
    BY <1>18, JobTypes DEF ConvertToText, Goto, Writing
  <2> QED
    BY <1>a, <2>1
<1>19. ASSUME NEW c \in Calls, ConvertToTextFails(c) PROVE Goal
  <2>1. cache' = cache /\ \A d \in Calls : pc[d] \in Writing => pc'[d] = pc[d]
    BY <1>19, JobTypes DEF ConvertToTextFails, Goto, Writing
  <2> QED
    BY <1>a, <2>1
<1>20. ASSUME NEW s \in Servers, Crash(s) PROVE Goal
  <2>1. cache' = cache
    BY <1>20 DEF Crash
  <2>2. ASSUME NEW d \in Calls, WillWrite(d, k) PROVE pc'[d] = pc[d]
    <3>1. pc[d] \in Writing /\ job[d].doc = k[2]
      BY <2>2 DEF WillWrite, Key, Writing
    <3>2. Server(d) # s
      BY <1>0, <1>20, <3>1 DEF Crash, Active
    <3> QED
      BY <1>20, <3>2 DEF Crash
  <2> QED
    BY <1>a, <2>1, <2>2
<1>21. CASE UNCHANGED vars
  BY <1>a, <1>21 DEF vars, callVars, processVars, history
<1> QED
  BY <1>1, <1>2, <1>3, <1>4, <1>5, <1>6, <1>7, <1>8, <1>9, <1>10, <1>11, <1>12,
     <1>13, <1>14, <1>15, <1>16, <1>17, <1>18, <1>19, <1>20, <1>21 DEF Next, Step,
     RunSoffice, Convert

-----------------------------------------------------------------------------
(***************************************************************************)
(* The theorems.                                                           *)
(***************************************************************************)
LEMMA IInvInit == Init => IInv
<1> SUFFICES ASSUME Init PROVE IInv
  OBVIOUS
<1>1. TypeOK
  BY TypeInit
<1>2. HandlerInv
  BY DEF Init, HandlerInv, ProcessInv, OverlapInv, AloneInv, AloneIsSafe, InHandler
<1>3. ContentInv
  BY DEF Init, ContentInv, HasAll, Writing
<1>4. CacheInv
  BY DEF Init, CacheInv, Absent
<1> QED
  BY <1>1, <1>2, <1>3, <1>4 DEF IInv

LEMMA IInvAlways == Spec => []IInv
<1>1. IInv /\ [Next]_vars => IInv'
  BY TypeNext, HandlerNext, ContentNext, CacheNext DEF IInv
<1> QED
  BY <1>1, IInvInit, PTL DEF Spec

\* Types.
THEOREM TypeCorrect == Spec => []TypeOK
<1>1. IInv => TypeOK
  BY DEF IInv
<1> QED
  BY <1>1, IInvAlways, PTL

\* Calls that have the handler (LibreOfficePdfHandler.convert) for themselves fail
\* only for a reason of their own and leave no running process, whatever other
\* servers do, and whatever calls are in the handler before and after them.
THEOREM AloneCallsAreSafe == Spec => []AloneIsSafe
<1>1. IInv => AloneIsSafe
  BY DEF IInv, HandlerInv
<1> QED
  BY <1>1, IInvAlways, PTL

\* Calls return whole documents, and leave whole files in the cache (Cache.set),
\* however many write the same file at once, when nobody has read an unfinished one.
THEOREM ConversionsAreWhole == Spec => []ConvertedWhole
<1>1. IInv => ConvertedWhole
  <2> SUFFICES ASSUME IInv, NEW c \in Calls, pc[c] = "done", Whole(job[c].doc)
               PROVE  /\ content[c] = Parts
                      /\ \A kind \in {"pdf", "text"} :
                           cache[Key(c, kind)].exists =>
                             \/ cache[Key(c, kind)].parts = Parts
                             \/ \E d \in Calls \ {c} : Key(d, kind) = Key(c, kind)
                                                       /\ pc[d] \in Writing
    BY DEF ConvertedWhole
  <2>1. content[c] = Parts
    BY DEF IInv, ContentInv, HasAll
  <2>2. ASSUME NEW kind \in {"pdf", "text"}, cache[Key(c, kind)].exists
        PROVE  \/ cache[Key(c, kind)].parts = Parts
               \/ \E d \in Calls \ {c} : Key(d, kind) = Key(c, kind) /\ pc[d] \in Writing
    <3>1. Key(c, kind) \in Keys /\ Key(c, kind)[2] = job[c].doc
      BY JobTypes DEF IInv, Key
    <3>2. \/ cache[Key(c, kind)].parts = Parts
          \/ \E d \in Calls : WillWrite(d, Key(c, kind))
      BY <2>2, <3>1 DEF IInv, CacheInv
    <3>3. ASSUME NEW d \in Calls, WillWrite(d, Key(c, kind))
          PROVE  d # c /\ Key(d, kind) = Key(c, kind) /\ pc[d] \in Writing
      BY <3>3 DEF WillWrite, Writing, Key
    <3> QED
      BY <3>2, <3>3
  <2> QED
    BY <2>1, <2>2
<1> QED
  BY <1>1, IInvAlways, PTL

=============================================================================
