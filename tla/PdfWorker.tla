------------------------------- MODULE PdfWorker -------------------------------
(***************************************************************************)
(* PdfProcessWorker (processor/pdf_worker.py): one child process that keeps  *)
(* the native PDF stack, asked over a pipe by one caller at a time.  The     *)
(* messages carry no number: an answer belongs to a request only because     *)
(* any doubt about the child ends it, its pipe with it.                      *)
(***************************************************************************)
EXTENDS Integers, Sequences

CONSTANTS
    Documents,
    CallLimit, DeathLimit       \* bounds

PdfAssumption == CallLimit \in Nat /\ DeathLimit \in Nat

VARIABLES
    caller,         \* the parent: what it is doing and for which document
    child,          \* the process the parent knows of
    down, up,       \* the two directions of its pipe
    given,          \* the results handed out: <<asked for, answered about>>
    calls, deaths

vars == <<caller, child, down, up, given, calls, deaths>>

Gone == [pc |-> "gone", doc |-> "none"]
Free == [pc |-> "free", doc |-> "none"]

Init ==
    /\ caller = Free /\ child = Gone /\ down = <<>> /\ up = <<>>
    /\ given = {} /\ calls = 0 /\ deaths = 0

-----------------------------------------------------------------------------
(* Mutant of Recycle: the child is kept.                                   *)
Keep == UNCHANGED <<child, down, up>>

(* _terminate_current: the pipe is closed, the group of the child killed.    *)
Recycle == child' = Gone /\ down' = <<>> /\ up' = <<>>

Return == caller' = Free /\ UNCHANGED <<calls, deaths>>
Raise == Return /\ Recycle /\ UNCHANGED given

(* process, under the lock: a child that lives is asked, else a new one is    *)
(* built first (_ensure_started).                                          *)
Call(d) ==
    /\ caller.pc = "free" /\ calls < CallLimit
    /\ calls' = calls + 1
    /\ IF child.pc \in {"gone", "dead"}
       THEN /\ caller' = [pc |-> "starting", doc |-> d]
            /\ child' = [pc |-> "building", doc |-> "none"] /\ down' = <<>> /\ up' = <<>>
       ELSE /\ caller' = [pc |-> "waiting", doc |-> d]
            /\ down' = Append(down, d) /\ UNCHANGED <<child, up>>
    /\ UNCHANGED <<given, deaths>>

Started ==
    /\ caller.pc = "starting" /\ up # <<>> /\ Head(up).status = "ready"
    /\ caller' = [caller EXCEPT !.pc = "waiting"]
    /\ down' = Append(down, caller.doc) /\ up' = Tail(up)
    /\ UNCHANGED <<child, given, calls, deaths>>

NotStarted ==
    /\ caller.pc = "starting"
    /\ \/ up # <<>> /\ Head(up).status # "ready"
       \/ up = <<>> /\ child.pc = "dead"
    /\ Raise

Succeeds ==
    /\ caller.pc = "waiting" /\ up # <<>> /\ Head(up).status = "success"
    /\ given' = given \cup {<<caller.doc, Head(up).doc>>}
    /\ up' = Tail(up) /\ Return /\ UNCHANGED <<child, down>>

(* An error of the document or of the stack, or a pipe at its end.          *)
Fails ==
    /\ caller.pc = "waiting"
    /\ \/ up # <<>> /\ Head(up).status # "success"
       \/ up = <<>> /\ child.pc = "dead"
    /\ Raise

(* poll: nothing to read at the deadline.                                  *)
Expired == up = <<>>
TimesOut ==
    /\ caller.pc \in {"starting", "waiting"} /\ Expired
    /\ Return /\ Recycle /\ UNCHANGED given

Parent == Started \/ NotStarted \/ Succeeds \/ Fails \/ TimesOut

-----------------------------------------------------------------------------
(* _pdf_worker_main *)
Send(status, doc) == up' = Append(up, [status |-> status, doc |-> doc])
Build ==
    /\ child.pc = "building"
    /\ \/ Send("ready", "none") /\ child' = [child EXCEPT !.pc = "idle"]
       \/ Send("startup_error", "none") /\ child' = [child EXCEPT !.pc = "dead"]
    /\ UNCHANGED <<caller, down, given, calls, deaths>>

Receive ==
    /\ child.pc = "idle" /\ down # <<>>
    /\ child' = [pc |-> "busy", doc |-> Head(down)] /\ down' = Tail(down)
    /\ UNCHANGED <<caller, up, given, calls, deaths>>

Answer ==
    /\ child.pc = "busy"
    /\ \E status \in {"success", "document_error", "processing_error"} :
          Send(status, child.doc)
    /\ child' = [pc |-> "idle", doc |-> "none"]
    /\ UNCHANGED <<caller, down, given, calls, deaths>>

(* A crash of native code, or the memory limit.  What was sent can be read.   *)
ChildDies ==
    /\ child.pc \notin {"gone", "dead"} /\ deaths < DeathLimit
    /\ deaths' = deaths + 1
    /\ child' = [pc |-> "dead", doc |-> "none"] /\ down' = <<>>
    /\ UNCHANGED <<caller, up, given, calls>>

Next ==
    \/ \E d \in Documents : Call(d)
    \/ Parent \/ Build \/ Receive \/ Answer \/ ChildDies

(* The parent's poll returns, with bytes or at its deadline.  Nothing is       *)
(* assumed of the child.                                                    *)
Spec == Init /\ [][Next]_vars /\ WF_vars(Parent)

-----------------------------------------------------------------------------
TypeOK ==
    /\ caller.pc \in {"free", "starting", "waiting"}
    /\ child.pc \in {"gone", "building", "idle", "busy", "dead"}
    /\ calls \in 0..CallLimit /\ deaths \in 0..DeathLimit

(* A document is never given the text of another one, however late the       *)
(* answer to an abandoned request comes.                                    *)
OwnAnswer == \A g \in given : g[1] = g[2]

(* A call ends, whatever its child does: the normaliser waits for it with     *)
(* its partition.                                                          *)
CallsReturn == caller.pc # "free" ~> caller.pc = "free"
=============================================================================
