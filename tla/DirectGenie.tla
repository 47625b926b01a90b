------------------------------ MODULE DirectGenie ------------------------------
(***************************************************************************)
(* adapters/direct_genie.py: DirectGenieAdapter.invoke and its poll loop,  *)
(* against the Genie service (external), for a sequence of questions.      *)
(*                                                                         *)
(* The one request that creates state (start_conversation, or              *)
(* create_message in a conversation to reuse) is sent once; get_message is *)
(* polled until a terminal state, the deadline, or too many transient      *)
(* failures in a row. Meanwhile the service works on every message it has  *)
(* accepted, also on those the adapter has given up on. Any request can    *)
(* fail; the state-creating one can fail after the service accepted it.    *)
(*                                                                         *)
(* A message is named by its position in the service's list and a          *)
(* conversation by its first message; 0 is None. The intermediate states   *)
(* are one ("ASKING_AI"), the states the adapter does not know are one     *)
(* ("THINKING"), so are the failures. Texts, SQL and latencies are left    *)
(* out. An operator X_Y is X with a plausible mistake, Y, in it; no        *)
(* definition uses one.                                                    *)
(***************************************************************************)
EXTENDS Integers, Sequences

CONSTANTS
  Timeout,       (* request_timeout_seconds, in ticks                      *)
  PollInterval,  (* poll_interval_seconds, in ticks                        *)
  MaxRetries,    (* max_transient_retries                                  *)
  MaxCallTime,   (* bound: ticks the initial call can take                 *)
  MaxTime,       (* bound: no get_message call lasts beyond this           *)
  MaxInvokes     (* bound: questions asked                                 *)

ASSUME GenieAssumption ==
  /\ Timeout \in Nat \ {0}
  /\ PollInterval \in Nat \ {0}
  /\ MaxRetries \in Nat
  /\ MaxCallTime \in Nat
  /\ MaxTime \in Nat
  /\ MaxInvokes \in Nat \ {0}

TerminalSuccess == {"COMPLETED"}
TerminalFailure == {"FAILED", "QUERY_RESULT_EXPIRED"}
TerminalStates  == TerminalSuccess \cup TerminalFailure
Intermediate    == {"ASKING_AI"}
UnknownStates   == {"THINKING"}
MessageState    == TerminalStates \cup Intermediate \cup UnknownStates

Warning == {"transient_poll_retry", "unknown_genie_state", "genie_terminal_status",
            "trace_id_unavailable"}
Failure == {"none", "service", "deadline", "retries", "no_ids", "other"}

VARIABLES
  pc,            (* where invoke is; "idle" between questions              *)
  reuse,         (* context.reuse_conversation_id                          *)
  ids,           (* the locals conversation_id and message_id              *)
  clock,         (* monotonic time since invoke began                      *)
  deadline,
  transient,     (* transient_failures                                     *)
  warnings,      (* the kinds of warning recorded                          *)
  rows,          (* InvocationResults returned                             *)
  messages,      (* the service's messages                                 *)
  posted,        (* per question: what the service took, what it told      *)
  gets           (* outcomes of this question's get_message calls          *)

locals == <<reuse, ids, clock, deadline, transient, warnings>>
vars   == <<pc, locals, rows, messages, posted, gets>>

None == 0
Here == Len(posted)      (* the question being answered *)

Init ==
  /\ pc = "idle"
  /\ reuse = None
  /\ ids = [conversation |-> None, message |-> None]
  /\ clock = 0
  /\ deadline = 0
  /\ transient = 0
  /\ warnings = {}
  /\ rows = <<>>
  /\ messages = <<>>
  /\ posted = <<>>
  /\ gets = <<>>

-----------------------------------------------------------------------------
(* _result: the row. A missing trace id is appended to (warnings or []),   *)
(* a list of its own when there is no warning yet.                         *)
RowWarnings(w, trace) ==
  IF trace \/ w = {} THEN w ELSE w \cup {"trace_id_unavailable"}

Result(status, named, trace, w, error) ==
  /\ rows' = Append(rows, [status |-> status, conversation |-> named.conversation,
                           message |-> named.message, trace |-> trace,
                           warnings |-> RowWarnings(w, trace), error |-> error])
  /\ pc' = "idle"

Anonymous == [conversation |-> None, message |-> None]

(* The runner passes the conversation of an earlier row, or none. *)
Invoke ==
  /\ pc = "idle"
  /\ Len(posted) < MaxInvokes
  /\ \E c \in {None} \cup {rows[i].conversation : i \in DOMAIN rows} : reuse' = c
  /\ pc' = "post"
  /\ ids' = Anonymous
  /\ clock' = 0 /\ deadline' = 0 /\ transient' = 0 /\ warnings' = {} /\ gets' = <<>>
  /\ posted' = Append(posted, [sent |-> 0, reuse |-> reuse', message |-> None, told |-> FALSE])
  /\ UNCHANGED <<rows, messages>>

Post ==
  /\ pc = "post"
  /\ pc' = "calling"
  /\ posted' = [posted EXCEPT ![Here].sent = @ + 1]
  /\ UNCHANGED <<locals, rows, messages, gets>>

(* start_conversation / create_message returns both ids: polling starts,   *)
(* and only now is the deadline set.                                       *)
InitialReturns_FirstMessage ==
  LET m == posted[Here].message
  IN /\ pc = "calling"
     /\ m # None
     /\ ids' = [conversation |-> messages[m].conversation,
                message |-> messages[m].conversation]
     /\ posted' = [posted EXCEPT ![Here].told = TRUE]
     /\ deadline' = clock + Timeout
     /\ pc' = "poll"
     /\ UNCHANGED <<reuse, clock, transient, warnings, rows, messages, gets>>

InitialReturns ==
  LET m == posted[Here].message
  IN /\ pc = "calling"
     /\ m # None
     /\ ids' = [conversation |-> IF reuse # None THEN reuse ELSE messages[m].conversation,
                message |-> m]
     /\ posted' = [posted EXCEPT ![Here].told = TRUE]
     /\ deadline' = clock + Timeout
     /\ pc' = "poll"
     /\ UNCHANGED <<reuse, clock, transient, warnings, rows, messages, gets>>

(* It returns without an id, raises, or raises TimeoutError.               *)
InitialFails_Retried ==
  /\ pc = "calling"
  /\ pc' = "post"
  /\ posted[Here].sent < 2
  /\ UNCHANGED <<locals, rows, messages, posted, gets>>

InitialFails ==
  /\ pc = "calling"
  /\ \/ posted[Here].message # None /\ Result("FAILED", Anonymous, FALSE, warnings, "no_ids")
     \/ Result("FAILED", Anonymous, FALSE, warnings, "other")
     \/ Result("TIMEOUT", Anonymous, FALSE, warnings, "deadline")
  /\ UNCHANGED <<locals, messages, posted, gets>>

-----------------------------------------------------------------------------
(* _poll_until_terminal *)

DeadlinePassed == clock >= deadline

TimedOut_WaitsForService ==
  /\ pc = "poll"
  /\ DeadlinePassed
  /\ messages[ids.message].state \in TerminalStates
  /\ Result("TIMEOUT", Anonymous, FALSE, warnings, "deadline")
  /\ UNCHANGED <<locals, messages, posted, gets>>

TimedOut ==
  /\ pc = "poll"
  /\ DeadlinePassed
  /\ Result("TIMEOUT", Anonymous, FALSE, warnings, "deadline")
  /\ UNCHANGED <<locals, messages, posted, gets>>

GetMessage ==
  /\ pc = "poll"
  /\ ~DeadlinePassed
  /\ pc' = "getting"
  /\ UNCHANGED <<locals, rows, messages, posted, gets>>

(* get_message answers with a state that is not terminal. *)
KeepPolling_CountsForever ==
  LET state == messages[ids.message].state
  IN /\ pc = "getting"
     /\ state \notin TerminalStates
     /\ gets' = Append(gets, "ok")
     /\ warnings' = IF state \in Intermediate THEN warnings
                    ELSE warnings \cup {"unknown_genie_state"}
     /\ pc' = "sleep"
     /\ UNCHANGED <<reuse, ids, clock, deadline, transient, rows, messages, posted>>

KeepPolling ==
  LET state == messages[ids.message].state
  IN /\ pc = "getting"
     /\ state \notin TerminalStates
     /\ gets' = Append(gets, "ok")
     /\ transient' = 0
     /\ warnings' = IF state \in Intermediate THEN warnings
                    ELSE warnings \cup {"unknown_genie_state"}
     /\ pc' = "sleep"
     /\ UNCHANGED <<reuse, ids, clock, deadline, rows, messages, posted>>

(* It answers with a terminal state, however late. *)
Terminal ==
  LET state == messages[ids.message].state
  IN /\ pc = "getting"
     /\ state \in TerminalStates
     /\ gets' = Append(gets, "ok")
     /\ transient' = 0
     /\ warnings' = IF state \in TerminalSuccess THEN warnings
                    ELSE warnings \cup {"genie_terminal_status"}
     /\ \E trace \in BOOLEAN :
          IF state \in TerminalSuccess
          THEN Result("COMPLETED", ids, trace, warnings', "none")
          ELSE Result("FAILED", ids, trace, warnings', "service")
     /\ UNCHANGED <<reuse, ids, clock, deadline, messages, posted>>

(* A transient failure sleeps and polls again, up to max_transient_retries *)
(* in a row; every other exception ends the request.                       *)
TransientFailure_NoSleep ==
  /\ pc = "getting"
  /\ gets' = Append(gets, "transient")
  /\ transient' = transient + 1
  /\ \/ /\ transient' > MaxRetries
        /\ Result("FAILED", Anonymous, FALSE, warnings, "retries")
        /\ UNCHANGED warnings
     \/ /\ transient' <= MaxRetries
        /\ warnings' = warnings \cup {"transient_poll_retry"}
        /\ pc' = "poll"
        /\ UNCHANGED rows
  /\ UNCHANGED <<reuse, ids, clock, deadline, messages, posted>>

TransientFailure_OneTooMany ==
  /\ pc = "getting"
  /\ gets' = Append(gets, "transient")
  /\ transient' = transient + 1
  /\ \/ /\ transient' > MaxRetries + 1
        /\ Result("FAILED", Anonymous, FALSE, warnings, "retries")
        /\ UNCHANGED warnings
     \/ /\ transient' <= MaxRetries + 1
        /\ warnings' = warnings \cup {"transient_poll_retry"}
        /\ pc' = "sleep"
        /\ UNCHANGED rows
  /\ UNCHANGED <<reuse, ids, clock, deadline, messages, posted>>

TransientFailure ==
  /\ pc = "getting"
  /\ gets' = Append(gets, "transient")
  /\ transient' = transient + 1
  /\ \/ /\ transient' > MaxRetries
        /\ Result("FAILED", Anonymous, FALSE, warnings, "retries")
        /\ UNCHANGED warnings
     \/ /\ transient' <= MaxRetries
        /\ warnings' = warnings \cup {"transient_poll_retry"}
        /\ pc' = "sleep"
        /\ UNCHANGED rows
  /\ UNCHANGED <<reuse, ids, clock, deadline, messages, posted>>

GetRaises ==
  /\ pc = "getting"
  /\ gets' = Append(gets, "raised")
  /\ \/ Result("FAILED", Anonymous, FALSE, warnings, "other")
     \/ Result("TIMEOUT", Anonymous, FALSE, warnings, "deadline")
  /\ UNCHANGED <<locals, messages, posted>>

Sleep ==
  /\ pc = "sleep"
  /\ clock' = clock + PollInterval
  /\ pc' = "poll"
  /\ UNCHANGED <<reuse, ids, deadline, transient, warnings, rows, messages, posted, gets>>

Tick ==
  /\ \/ pc = "calling" /\ clock < MaxCallTime
     \/ pc = "getting" /\ clock < MaxTime
  /\ clock' = clock + 1
  /\ UNCHANGED <<pc, reuse, ids, deadline, transient, warnings, rows, messages, posted, gets>>

-----------------------------------------------------------------------------
(* The Genie service: it takes the message (opening a conversation unless  *)
(* one is named), works on any message it has, and lets results expire.    *)
Accept ==
  /\ pc = "calling"
  /\ posted[Here].message = None
  /\ LET m == Len(messages) + 1
     IN /\ messages' = Append(messages,
             [conversation |-> IF reuse = None THEN m ELSE reuse, state |-> "ASKING_AI"])
        /\ posted' = [posted EXCEPT ![Here].message = m]
  /\ UNCHANGED <<pc, locals, rows, gets>>

Work(m) ==
  /\ \/ messages[m].state \notin TerminalStates
        /\ \E s \in MessageState \ {"QUERY_RESULT_EXPIRED", messages[m].state} :
             messages' = [messages EXCEPT ![m].state = s]
     \/ messages[m].state = "COMPLETED"
        /\ messages' = [messages EXCEPT ![m].state = "QUERY_RESULT_EXPIRED"]
  /\ UNCHANGED <<pc, locals, rows, posted, gets>>

Adapter ==
  \/ Post \/ InitialReturns \/ InitialFails
  \/ TimedOut \/ GetMessage \/ KeepPolling \/ Terminal \/ TransientFailure \/ GetRaises
  \/ Sleep

Next == Invoke \/ Adapter \/ Tick \/ Accept \/ \E m \in DOMAIN messages : Work(m)

(* The adapter runs, and every call it makes returns or raises: the client *)
(* below it does not hang. The service may never finish a message.         *)
Spec == Init /\ [][Next]_vars /\ WF_vars(Adapter)

-----------------------------------------------------------------------------
RowType     == [status: {"COMPLETED", "FAILED", "TIMEOUT"}, conversation: Nat,
                message: Nat, trace: BOOLEAN, warnings: SUBSET Warning, error: Failure]
MessageType == [conversation: Nat \ {None}, state: MessageState]
PostType    == [sent: 0..1, reuse: Nat, message: Nat, told: BOOLEAN]

(* The type invariant of invoke's locals, its rows and the service's side. *)
TypeOK ==
  /\ pc \in {"idle", "post", "calling", "poll", "getting", "sleep"}
  /\ reuse \in Nat
  /\ ids \in [conversation: Nat, message: Nat]
  /\ clock \in Nat /\ deadline \in Nat /\ transient \in 0..(MaxRetries + 1)
  /\ warnings \subseteq Warning
  /\ rows \in Seq(RowType)
  /\ messages \in Seq(MessageType)
  /\ posted \in Seq(PostType)
  /\ gets \in Seq({"ok", "transient", "raised"})

(* A row that names a message names the one its own question created, in   *)
(* the conversation it was asked to reuse if any; and it says COMPLETED    *)
(* only of a message the service completed (direct_genie.py:151, 185-206). *)
AnswerIsItsOwn ==
  \A i \in DOMAIN rows :
    LET m == rows[i].message
    IN /\ m # None =>
            /\ m = posted[i].message
            /\ rows[i].conversation = messages[m].conversation
            /\ posted[i].reuse \in {None, rows[i].conversation}
       /\ rows[i].status = "COMPLETED" =>
            m # None /\ messages[m].state \in {"COMPLETED", "QUERY_RESULT_EXPIRED"}

(* The adapter gives up on transient failures exactly when more than       *)
(* max_transient_retries came in a row, a success between starting the     *)
(* count again (direct_genie.py:226-239).                                  *)
Exhausted ==
  /\ Len(gets) > MaxRetries
  /\ \A i \in (Len(gets) - MaxRetries)..Len(gets) : gets[i] = "transient"

RetryBudget ==
  /\ pc \in {"poll", "getting", "sleep"} => ~Exhausted
  /\ pc = "idle" /\ rows # <<>> => (rows[Len(rows)].error = "retries" <=> Exhausted)

(* Polls are spaced: a request makes no more get_message calls than whole  *)
(* poll intervals fit its timeout, and one, also when some fail            *)
(* (direct_genie.py:221-249).                                              *)
PollsBounded == Len(gets) > 0 => (Len(gets) - 1) * PollInterval < Timeout

(* Every question gets its row, whatever the service does: the poll loop   *)
(* has a deadline (direct_genie.py:221-225).                               *)
InvokeReturns == (pc # "idle") ~> (pc = "idle")

(* The adapter implements the contract of adapters/base.py: one row per    *)
(* question, and the state-creating request sent once at most.             *)
Contract ==
  INSTANCE AgentAdapter WITH
    asked   <- Len(posted),
    posts   <- IF posted = <<>> THEN 0 ELSE posted[Here].sent,
    answers <- [i \in DOMAIN rows |-> rows[i].status]
ContractSpec == Contract!Spec

-----------------------------------------------------------------------------
(* The inductive invariant behind the safety properties. Polling is the    *)
(* part of invoke that knows its message.                                  *)
Polling == pc \in {"poll", "getting", "sleep"}

(* Each question has its place in the ledger, and at most one is open; the *)
(* message a question created is in the conversation it was to reuse, and  *)
(* the locals of the open question agree with the ledger.                  *)
LedgerInv ==
  /\ Len(posted) = Len(rows) + (IF pc = "idle" THEN 0 ELSE 1)
  /\ pc # "idle" => reuse = posted[Here].reuse
  /\ pc = "post" => posted[Here].sent = 0 /\ posted[Here].message = None
  /\ \A i \in 1..Len(posted) :
       LET m == posted[i].message
       IN m # None => m <= Len(messages) /\ posted[i].reuse \in {None, messages[m].conversation}
  /\ Polling => /\ ids.message # None
                /\ ids.message = posted[Here].message
                /\ ids.conversation = messages[ids.message].conversation

(* transient_failures is the length of the run of failures gets ends with. *)
RetryInv ==
  /\ pc \in {"post", "calling"} => gets = <<>> /\ transient = 0
  /\ Polling =>
       /\ transient <= MaxRetries /\ transient <= Len(gets)
       /\ \A i \in (Len(gets) - transient + 1)..Len(gets) : gets[i] = "transient"
       /\ transient < Len(gets) => gets[Len(gets) - transient] # "transient"

(* Each poll so far has cost one interval since polling began, and the one *)
(* that is out began before the deadline.                                  *)
SpacingInv ==
  LET elapsed == clock - (deadline - Timeout)
  IN /\ pc \in {"poll", "getting"} => Len(gets) * PollInterval <= elapsed
     /\ pc = "getting" => Len(gets) * PollInterval < Timeout
     /\ pc = "sleep" => Len(gets) > 0 /\ (Len(gets) - 1) * PollInterval <= elapsed

IInv == LedgerInv /\ RetryInv /\ SpacingInv
==============================================================================
