----------------------------- MODULE Conversion -----------------------------
(***************************************************************************)
(* The conversion of office documents to PDF and to text                   *)
(* (services/conversion): a cache of files, written in place, that all     *)
(* servers share, and a handler that every thread of a server shares, which *)
(* keeps the LibreOffice it has started in an attribute.                    *)
(*                                                                         *)
(* A file is the set of its parts: those who write it write one after the  *)
(* other, those who read it take what is there.  Each call is made once.   *)
(***************************************************************************)
EXTENDS Naturals

CONSTANTS Calls, Documents, Servers, None,
          Cases,     \* what the calls may be
          MaxCrashes \* bounds the crashes of servers

ASSUME ConversionAssumption ==
  /\ Cases \subseteq [Calls -> [kind : {"pdf", "text"}, doc : Documents, server : Servers]]
  /\ None \notin Calls
  /\ MaxCrashes \in Nat

VARIABLES
  job,     \* what each call converts, in which server
  pc,      \* where the thread of the call is
  content, \* what the call has read or converted, and returns at last
  thread,  \* run_soffice, in the thread that the call has started
  waits,   \* the process that it waits for
  process, \* the LibreOffice that the call has started
  output,  \* its file in tmp_dir
  attr,    \* self._process of the handler of each server
  cache,   \* the files of cache_dir
  crashes,
  \* History:
  cut,        \* calls whose process ended before it had written its file
  early,      \* calls that read their file while their process was writing it
  torn,       \* documents of which an unfinished file was read, or left by a crash
  overlapped, \* calls that were in the handler while another was
  reason      \* calls whose process did not start, or timed out

callVars == <<job, pc, content>>
processVars == <<thread, waits, process, output, attr>>
history == <<cut, early, torn, overlapped, reason>>
vars == <<callVars, processVars, cache, crashes, history>>

Parts == {1, 2}
Absent == [exists |-> FALSE, parts |-> {}]
Keys == {"pdf", "text"} \X Documents

Writing == {"pdf1", "pdf2", "text1", "text2"}
InHandler == {"join", "read", "del", "undo"}
Active == {"text", "pdf", "start", "convert"} \cup InHandler \cup Writing
          \cup {"openpdf", "opentext"}

Server(c) == job[c].server
Key(c, kind) == <<kind, job[c].doc>>
Goto(c, from, to) == pc[c] = from /\ pc' = [pc EXCEPT ![c] = to]

\* What is in a file that somebody is writing, or that a crash left unfinished.
Written(key) == IF cache[key].exists THEN cache[key].parts ELSE {}

(***************************************************************************)
(* to_pdf and to_text: the cache is looked at first.  An empty file is as  *)
(* good as none.                                                           *)
(***************************************************************************)
Begin(c) ==
  /\ Goto(c, "new", job[c].kind)
  /\ UNCHANGED <<job, content, processVars, cache, crashes, history>>

\* The slip of looking whether there is a file, not whether there is something in it.
LookUpIfItExists(c, kind, found, missing) ==
  LET read == Written(Key(c, kind))
  IN /\ Goto(c, kind, IF cache[Key(c, kind)].exists THEN found ELSE missing)
     /\ content' = [content EXCEPT ![c] = read]
     /\ torn' = IF read \notin {{}, Parts} THEN torn \cup {job[c].doc} ELSE torn
     /\ UNCHANGED <<job, processVars, cache, crashes, cut, early, overlapped, reason>>

\* Reads the file of the call's kind, or goes on where there is none.
LookUp(c, kind, found, missing) ==
  LET read == Written(Key(c, kind))
  IN /\ Goto(c, kind, IF read = {} THEN missing ELSE found)
     /\ content' = [content EXCEPT ![c] = read]
     /\ torn' = IF read \notin {{}, Parts} THEN torn \cup {job[c].doc} ELSE torn
     /\ UNCHANGED <<job, processVars, cache, crashes, cut, early, overlapped, reason>>

LookUpText(c) == LookUp(c, "text", "done", "pdf")
LookUpPdf(c) == LookUp(c, "pdf", IF job[c].kind = "pdf" THEN "done" ELSE "convert", "start")

(***************************************************************************)
(* LibreOfficePdfHandler.convert.                                          *)
(***************************************************************************)
Others(c) == {d \in Calls \ {c} : Server(d) = Server(c) /\ pc[d] \in InHandler}

StartThread(c) ==
  /\ Goto(c, "start", "join")
  /\ thread' = [thread EXCEPT ![c] = "popen"]
  /\ overlapped' = IF Others(c) = {} THEN overlapped ELSE overlapped \cup Others(c) \cup {c}
  /\ UNCHANGED <<job, content, waits, process, output, attr, cache, crashes,
                 cut, early, torn, reason>>

Popen(c) ==
  /\ thread[c] = "popen"
  /\ thread' = [thread EXCEPT ![c] = "attribute"]
  /\ process' = [process EXCEPT ![c] = "running"]
  /\ attr' = [attr EXCEPT ![Server(c)] = c]
  /\ UNCHANGED <<callVars, waits, output, cache, crashes, history>>

\* The exception of the thread is logged and lost.
PopenFails(c) ==
  /\ thread[c] = "popen"
  /\ thread' = [thread EXCEPT ![c] = "ended"]
  /\ reason' = reason \cup {c}
  /\ UNCHANGED <<callVars, waits, process, output, attr, cache, crashes,
                 cut, early, torn, overlapped>>

\* The slip of expecting the attribute to be as this thread has left it.
CommunicateAnyway(c) ==
  /\ thread[c] = "attribute"
  /\ waits' = [waits EXCEPT ![c] = attr[Server(c)]]
  /\ thread' = [thread EXCEPT ![c] = "waiting"]
  /\ UNCHANGED <<callVars, process, output, attr, cache, crashes, history>>

\* self._process is read again; another call may have set or deleted it.
Communicate(c) ==
  /\ thread[c] = "attribute"
  /\ LET p == attr[Server(c)]
     IN /\ waits' = [waits EXCEPT ![c] = p]
        /\ thread' = [thread EXCEPT ![c] = IF p = None THEN "ended" ELSE "waiting"]
  /\ UNCHANGED <<callVars, process, output, attr, cache, crashes, history>>

Communicated(c) ==
  /\ thread[c] = "waiting"
  /\ process[waits[c]] = "ended"
  /\ thread' = [thread EXCEPT ![c] = "ended"]
  /\ UNCHANGED <<callVars, waits, process, output, attr, cache, crashes, history>>

Joined(c) ==
  /\ thread[c] = "ended"
  /\ Goto(c, "join", "read")
  /\ UNCHANGED <<job, content, processVars, cache, crashes, history>>

\* The slip of not ending the process when the time is over.
TimeOutLeavingIt(c) ==
  /\ thread[c] = "waiting"
  /\ Goto(c, "join", "undo")
  /\ reason' = reason \cup {c}
  /\ UNCHANGED <<job, content, processVars, cache, crashes, cut, early, torn, overlapped>>

\* The slip of a timer that only looks at a process that the attribute still holds.
TimeOutIfHeld(c) ==
  LET p == attr[Server(c)]
  IN /\ thread[c] = "waiting"
     /\ p # None /\ process[p] = "running"
     /\ Goto(c, "join", "undo")
     /\ process' = [process EXCEPT ![p] = "terminated"]
     /\ reason' = reason \cup {c}
     /\ UNCHANGED <<job, content, thread, waits, output, attr, cache, crashes,
                    cut, early, torn, overlapped>>

\* A minute has passed; whatever process the attribute holds is terminated.  It is
\* killed only if it has already ended.
TimeOut(c) ==
  LET p == attr[Server(c)]
  IN /\ thread[c] = "waiting"
     /\ Goto(c, "join", "undo")
     /\ process' = IF p # None /\ process[p] = "running"
                   THEN [process EXCEPT ![p] = "terminated"] ELSE process
     /\ reason' = reason \cup {c}
     /\ UNCHANGED <<job, content, thread, waits, output, attr, cache, crashes,
                    cut, early, torn, overlapped>>

\* The file is read whatever the process's exit status.
ReadOutput(c) ==
  /\ Goto(c, "read", IF output[c] = {} THEN "undo" ELSE "del")
  /\ content' = [content EXCEPT ![c] = output[c]]
  /\ early' = IF output[c] # {} /\ process[c] # "ended" THEN early \cup {c} ELSE early
  /\ UNCHANGED <<job, processVars, cache, crashes, cut, torn, overlapped, reason>>

\* del self._process raises when another call has done it: the result is lost.
DeleteAttribute(c) ==
  /\ \/ Goto(c, "del", IF attr[Server(c)] = None THEN "failed" ELSE "openpdf")
     \/ Goto(c, "undo", "failed")
  /\ attr' = [attr EXCEPT ![Server(c)] = None]
  /\ UNCHANGED <<job, content, thread, waits, process, output, cache, crashes, history>>

(***************************************************************************)
(* LibreOffice.  A process that was terminated may take its time.          *)
(***************************************************************************)
ProcessWrites(c) ==
  /\ process[c] \in {"running", "terminated"}
  /\ output[c] = {}
  /\ output' = [output EXCEPT ![c] = {1}]
  /\ UNCHANGED <<callVars, thread, waits, process, attr, cache, crashes, history>>

ProcessSucceeds(c) ==
  /\ process[c] = "running"
  /\ output[c] = {1}
  /\ process' = [process EXCEPT ![c] = "ended"]
  /\ output' = [output EXCEPT ![c] = Parts]
  /\ UNCHANGED <<callVars, thread, waits, attr, cache, crashes, history>>

ProcessDies(c) ==
  /\ process[c] \in {"running", "terminated"}
  /\ process' = [process EXCEPT ![c] = "ended"]
  /\ cut' = cut \cup {c}
  /\ UNCHANGED <<callVars, thread, waits, output, attr, cache, crashes,
                 early, torn, overlapped, reason>>

(***************************************************************************)
(* The cache, and pdftotext.                                               *)
(***************************************************************************)
\* Opening a file to write empties it.
OpenCache(c, kind, from, to) ==
  /\ Goto(c, from, to)
  /\ cache' = [cache EXCEPT ![Key(c, kind)] = [exists |-> TRUE, parts |-> {}]]
  /\ UNCHANGED <<job, content, processVars, crashes, history>>

WritePart(c, kind, part, from, to) ==
  /\ Goto(c, from, to)
  /\ cache' = [cache EXCEPT ![Key(c, kind)].parts = @ \cup (content[c] \cap {part})]
  /\ UNCHANGED <<job, content, processVars, crashes, history>>

SavePdf(c) ==
  \/ OpenCache(c, "pdf", "openpdf", "pdf1")
  \/ WritePart(c, "pdf", 1, "pdf1", "pdf2")
  \/ WritePart(c, "pdf", 2, "pdf2", IF job[c].kind = "pdf" THEN "done" ELSE "convert")

SaveText(c) ==
  \/ OpenCache(c, "text", "opentext", "text1")
  \/ WritePart(c, "text", 1, "text1", "text2")
  \/ WritePart(c, "text", 2, "text2", "done")

\* The text of a part of a PDF, if it can be read, is that of a part.
ConvertToText(c) ==
  /\ Goto(c, "convert", "opentext")
  /\ UNCHANGED <<job, content, processVars, cache, crashes, history>>

ConvertToTextFails(c) ==
  /\ Goto(c, "convert", "failed")
  /\ reason' = reason \cup {c}
  /\ UNCHANGED <<job, content, processVars, cache, crashes,
                 cut, early, torn, overlapped>>

(***************************************************************************)
(* A server crashes; what it has started runs on.                          *)
(***************************************************************************)
Crash(s) ==
  LET lost == {c \in Calls : Server(c) = s /\ pc[c] \in Active}
  IN /\ crashes < MaxCrashes
     /\ lost # {}
     /\ crashes' = crashes + 1
     /\ pc' = [c \in Calls |-> IF c \in lost THEN "dead" ELSE pc[c]]
     /\ thread' = [c \in Calls |-> IF c \in lost THEN "none" ELSE thread[c]]
     /\ attr' = [attr EXCEPT ![s] = None]
     /\ torn' = torn \cup {job[c].doc : c \in {d \in lost : pc[d] \in Writing}}
     /\ UNCHANGED <<job, content, waits, process, output, cache,
                    cut, early, overlapped, reason>>

(***************************************************************************)
(* The specification.                                                      *)
(***************************************************************************)
Init ==
  /\ job \in Cases
  /\ pc = [c \in Calls |-> "new"]
  /\ content = [c \in Calls |-> {}]
  /\ thread = [c \in Calls |-> "none"]
  /\ waits = [c \in Calls |-> None]
  /\ process = [c \in Calls |-> "none"]
  /\ output = [c \in Calls |-> {}]
  /\ attr = [s \in Servers |-> None]
  /\ cache = [k \in Keys |-> Absent]
  /\ crashes = 0
  /\ cut = {} /\ early = {} /\ torn = {} /\ overlapped = {} /\ reason = {}

RunSoffice(c) == Popen(c) \/ PopenFails(c) \/ Communicate(c) \/ Communicated(c)

Convert(c) == StartThread(c) \/ Joined(c) \/ ReadOutput(c) \/ DeleteAttribute(c)

Step(c) ==
  \/ LookUpText(c)
  \/ LookUpPdf(c)
  \/ Convert(c)
  \/ SavePdf(c)
  \/ ConvertToText(c)
  \/ ConvertToTextFails(c)
  \/ SaveText(c)

Next ==
  \/ \E c \in Calls :
       \/ Begin(c)
       \/ Step(c)
       \/ RunSoffice(c)
       \/ TimeOut(c)
       \/ ProcessWrites(c)
       \/ ProcessSucceeds(c)
       \/ ProcessDies(c)
  \/ \E s \in Servers : Crash(s)

Spec == Init /\ [][Next]_vars

\* Threads are scheduled, and the timer of a call goes off.  Nothing is assumed
\* of LibreOffice, which may never end.
FairSpec ==
  /\ Spec
  /\ \A c \in Calls : WF_vars(Step(c)) /\ WF_vars(RunSoffice(c)) /\ WF_vars(TimeOut(c))

(***************************************************************************)
(* Properties.                                                             *)
(***************************************************************************)

\* Types; a thread waits for a process that was started, and the attribute holds
\* one.
TypeOK ==
  /\ job \in Cases
  /\ pc \in [Calls -> Active \cup {"new", "done", "failed", "dead"}]
  /\ content \in [Calls -> SUBSET Parts]
  /\ thread \in [Calls -> {"none", "popen", "attribute", "waiting", "ended"}]
  /\ waits \in [Calls -> Calls \cup {None}]
  /\ \A c \in Calls : thread[c] = "waiting" => waits[c] \in Calls /\ process[waits[c]] # "none"
  /\ process \in [Calls -> {"none", "running", "terminated", "ended"}]
  /\ output \in [Calls -> SUBSET Parts]
  /\ attr \in [Servers -> Calls \cup {None}]
  /\ \A s \in Servers : attr[s] # None => process[attr[s]] # "none"
  /\ cache \in [Keys -> [exists : BOOLEAN, parts : SUBSET Parts]]
  /\ crashes \in 0..MaxCrashes
  /\ cut \subseteq Calls /\ early \subseteq Calls /\ overlapped \subseteq Calls /\ reason \subseteq Calls
  /\ torn \subseteq Documents

Whole(d) == d \notin torn /\ \A c \in cut \cup early : job[c].doc # d

\* Calls return the whole of their document, and leave it whole in the cache,
\* however many convert it at once and write the same file over each other, unless
\* an unfinished file was read (get_bytes, set), a crash left one, or a process
\* ended early (its exit status is not looked at).
ConvertedWhole ==
  \A c \in Calls :
    /\ pc[c] = "done" /\ Whole(job[c].doc) => content[c] = Parts
    /\ \A kind \in {"pdf", "text"} :
         LET file == cache[Key(c, kind)]
         IN file.exists /\ Whole(job[c].doc) /\ pc[c] = "done"
              => file.parts = Parts \/ \E d \in Calls \ {c} :
                                         Key(d, kind) = Key(c, kind) /\ pc[d] \in Writing

\* Calls that have the handler for themselves fail only for a reason of their own,
\* read no file that is being written, and leave no process that they have not at
\* least told to end: only a handler that is shared takes a process, or its
\* attribute, away (self._process).
AloneIsSafe ==
  \A c \in Calls \ overlapped :
    /\ pc[c] = "failed" => c \in reason \cup cut
    /\ c \notin early
    /\ process[c] = "running" => pc[c] \in {"join", "dead"}

\* The timer ends every conversion, whatever becomes of LibreOffice and of the
\* attribute that the timer looks at.
EveryConversionReturns == []<>(\A c \in Calls : pc[c] \notin InHandler)
=============================================================================
