--------------------------- MODULE DirectGenieProofs ---------------------------
(***************************************************************************)
(* The direct Genie adapter, for every timeout, poll interval, retry limit *)
(* and number of questions, against a service that may do anything.        *)
(***************************************************************************)
EXTENDS DirectGenie, TLAPS

(* One element of a sequence is replaced, or one is added.                 *)
LEMMA ReplaceInSeq ==
  ASSUME NEW T, NEW s \in Seq(T), NEW i \in 1..Len(s), NEW v \in T
  PROVE  /\ [s EXCEPT ![i] = v] \in Seq(T)
         /\ Len([s EXCEPT ![i] = v]) = Len(s)
         /\ \A j \in 1..Len(s) : [s EXCEPT ![i] = v][j] = IF j = i THEN v ELSE s[j]
OBVIOUS

LEMMA AppendToSeq ==
  ASSUME NEW T, NEW s \in Seq(T), NEW v \in T
  PROVE  /\ Append(s, v) \in Seq(T)
         /\ Len(Append(s, v)) = Len(s) + 1
         /\ Append(s, v)[Len(s) + 1] = v
         /\ \A j \in 1..Len(s) : Append(s, v)[j] = s[j]
         /\ Append(s, v) # <<>>
OBVIOUS

-----------------------------------------------------------------------------
(* What _result appends is a row.                                          *)
LEMMA ResultIsRow ==
  ASSUME rows \in Seq(RowType), NEW status \in {"COMPLETED", "FAILED", "TIMEOUT"},
         NEW named \in [conversation: Nat, message: Nat], NEW trace \in BOOLEAN,
         NEW w \in SUBSET Warning, NEW error \in Failure,
         Result(status, named, trace, w, error)
  PROVE  /\ rows' \in Seq(RowType) /\ pc' = "idle"
         /\ Len(rows') = Len(rows) + 1 /\ rows' # <<>>
         /\ \A j \in 1..Len(rows) : rows'[j] = rows[j]
         /\ LET row == rows'[Len(rows) + 1]
            IN /\ row.status = status /\ row.error = error
               /\ row.message = named.message /\ row.conversation = named.conversation
<1> DEFINE row == [status |-> status, conversation |-> named.conversation,
                   message |-> named.message, trace |-> trace,
                   warnings |-> RowWarnings(w, trace), error |-> error]
<1>1. RowWarnings(w, trace) \in SUBSET Warning
  BY DEF RowWarnings, Warning
<1>2. row \in RowType
  BY <1>1 DEF RowType
<1>3. rows' = Append(rows, row) /\ pc' = "idle"
  BY DEF Result
<1>4. /\ row.status = status /\ row.error = error
      /\ row.message = named.message /\ row.conversation = named.conversation
  OBVIOUS
<1> HIDE DEF row
<1>5. QED
  BY <1>2, <1>3, <1>4, AppendToSeq

LEMMA AnonymousType == Anonymous \in [conversation: Nat, message: Nat]
BY DEF Anonymous, None

LEMMA InitType == Init => TypeOK
BY GenieAssumption DEF Init, TypeOK, None, Failure

(* A state-creating step of the ledger keeps its type.                     *)
LEMMA PostedUpdate ==
  ASSUME posted \in Seq(PostType), posted # <<>>, NEW v \in PostType,
         posted' = [posted EXCEPT ![Here] = v]
  PROVE  /\ posted' \in Seq(PostType) /\ Len(posted') = Len(posted) /\ posted' # <<>>
         /\ posted'[Here] = v
         /\ \A i \in 1..Len(posted) : i # Here => posted'[i] = posted[i]
<1>1. Len(posted) \in 1..Len(posted)
  OBVIOUS
<1>2. QED
  BY <1>1, ReplaceInSeq DEF Here

(* What the ledger says of the question being answered.                    *)
LEMMA OpenQuestion ==
  ASSUME TypeOK, LedgerInv, pc # "idle"
  PROVE  /\ posted # <<>> /\ Here \in 1..Len(posted) /\ posted[Here] \in PostType
         /\ Len(posted) = Len(rows) + 1
         /\ Polling => /\ ids.message \in 1..Len(messages)
                       /\ messages[ids.message] \in MessageType
<1>1. posted \in Seq(PostType) /\ rows \in Seq(RowType) /\ messages \in Seq(MessageType)
  BY DEF TypeOK
<1>2. Len(posted) = Len(rows) + 1 /\ Len(rows) \in Nat
  BY <1>1 DEF LedgerInv
<1>3. posted # <<>> /\ Here \in 1..Len(posted) /\ posted[Here] \in PostType
  BY <1>1, <1>2 DEF Here
<1>4. ASSUME Polling PROVE ids.message \in 1..Len(messages)
  <2>1. posted[Here].message \in Nat /\ ids.message = posted[Here].message /\ ids.message # None
    BY <1>3, <1>4 DEF LedgerInv, PostType
  <2>2. posted[Here].message <= Len(messages)
    BY <1>3, <2>1 DEF LedgerInv
  <2>3. QED
    BY <1>1, <2>1, <2>2 DEF None
<1>5. QED
  BY <1>1, <1>2, <1>3, <1>4

(* The service changes the state of one message, from one that is not      *)
(* terminal or from COMPLETED to expired.                                  *)
LEMMA WorkMoves ==
  ASSUME NEW m \in DOMAIN messages, Work(m)
  PROVE  \E s \in MessageState :
           /\ messages' = [messages EXCEPT ![m] = [messages[m] EXCEPT !.state = s]]
           /\ messages[m].state \in TerminalStates =>
                messages[m].state = "COMPLETED" /\ s = "QUERY_RESULT_EXPIRED"
<1>1. CASE /\ messages[m].state \notin TerminalStates
           /\ \E s \in MessageState \ {"QUERY_RESULT_EXPIRED", messages[m].state} :
                messages' = [messages EXCEPT ![m].state = s]
  BY <1>1
<1>2. CASE /\ messages[m].state = "COMPLETED"
           /\ messages' = [messages EXCEPT ![m].state = "QUERY_RESULT_EXPIRED"]
  <2>1. "QUERY_RESULT_EXPIRED" \in MessageState
    BY DEF MessageState, TerminalStates, TerminalFailure
  <2>2. QED
    BY <1>2, <2>1
<1>3. QED
  BY <1>1, <1>2 DEF Work

LEMMA StepType == TypeOK /\ LedgerInv /\ RetryInv /\ [Next]_vars => TypeOK'
<1> SUFFICES ASSUME TypeOK, LedgerInv, RetryInv, [Next]_vars PROVE TypeOK'
  OBVIOUS
<1>0. /\ reuse \in Nat /\ ids \in [conversation: Nat, message: Nat]
      /\ clock \in Nat /\ deadline \in Nat /\ transient \in 0..(MaxRetries + 1)
      /\ warnings \in SUBSET Warning /\ rows \in Seq(RowType)
      /\ messages \in Seq(MessageType) /\ posted \in Seq(PostType)
      /\ gets \in Seq({"ok", "transient", "raised"})
  BY DEF TypeOK
<1>1. CASE Invoke
  <2>1. reuse' \in Nat
    <3>1. ASSUME NEW i \in DOMAIN rows PROVE rows[i].conversation \in Nat
      <4>1. rows[i] \in RowType
        BY <1>0
      <4>2. QED
        BY <4>1 DEF RowType
    <3>2. QED
      BY <1>1, <3>1 DEF Invoke, None
  <2>2. posted' \in Seq(PostType)
    BY <1>0, <1>1, <2>1, AppendToSeq DEF Invoke, PostType, None
  <2>3. QED
    BY <1>0, <1>1, <2>1, <2>2, AnonymousType, GenieAssumption DEF Invoke, TypeOK
<1>2. CASE Post
  <2>1. pc = "post" /\ posted[Here].sent = 0 /\ posted[Here] \in PostType
    BY <1>2, OpenQuestion DEF Post, LedgerInv
  <2>2. posted' \in Seq(PostType)
    <3>1. [posted[Here] EXCEPT !.sent = posted[Here].sent + 1] \in PostType
      BY <2>1 DEF PostType
    <3>2. posted' = [posted EXCEPT ![Here] = [posted[Here] EXCEPT !.sent = posted[Here].sent + 1]]
      BY <1>2 DEF Post
    <3>3. QED
      BY <1>0, <2>1, <3>1, <3>2, OpenQuestion, PostedUpdate
  <2>3. QED
    BY <1>0, <1>2, <2>2 DEF Post, locals, TypeOK
<1>3. CASE InitialReturns
  <2>1. posted[Here] \in PostType /\ posted # <<>> /\ posted[Here].message # None
        /\ posted[Here].message \in DOMAIN messages
    <3>1. pc # "idle" /\ posted[Here].message # None
      BY <1>3 DEF InitialReturns
    <3>2. posted[Here] \in PostType /\ posted # <<>> /\ Here \in 1..Len(posted)
      BY <3>1, OpenQuestion
    <3>3. posted[Here].message <= Len(messages) /\ posted[Here].message \in Nat
      BY <3>1, <3>2 DEF LedgerInv, PostType
    <3>4. QED
      BY <1>0, <3>1, <3>2, <3>3 DEF None
  <2>2. posted' \in Seq(PostType)
    <3>1. [posted[Here] EXCEPT !.told = TRUE] \in PostType
      BY <2>1 DEF PostType
    <3>2. posted' = [posted EXCEPT ![Here] = [posted[Here] EXCEPT !.told = TRUE]]
      BY <1>3 DEF InitialReturns
    <3>3. QED
      BY <1>0, <2>1, <3>1, <3>2, PostedUpdate
  <2>3. ids' \in [conversation: Nat, message: Nat]
    <3>1. messages[posted[Here].message] \in MessageType
      BY <1>0, <2>1
    <3>2. reuse \in Nat /\ posted[Here].message \in Nat
      BY <1>0, <2>1 DEF PostType
    <3>3. messages[posted[Here].message].conversation \in Nat
      BY <3>1 DEF MessageType
    <3>4. ids' = [conversation |-> IF reuse # None THEN reuse
                                   ELSE messages[posted[Here].message].conversation,
                  message      |-> posted[Here].message]
      BY <1>3 DEF InitialReturns
    <3>5. QED
      BY <3>2, <3>3, <3>4
  <2>4. deadline' \in Nat
    <3>1. deadline' = clock + Timeout /\ clock \in Nat /\ Timeout \in Nat
      BY <1>0, <1>3, GenieAssumption DEF InitialReturns
    <3>2. QED
      BY <3>1
  <2>5. QED
    BY <1>0, <1>3, <2>2, <2>3, <2>4 DEF InitialReturns, TypeOK
<1>4. CASE InitialFails
  <2>1. rows' \in Seq(RowType) /\ pc' = "idle"
    BY <1>0, <1>4, AnonymousType, ResultIsRow DEF InitialFails, Failure
  <2>2. QED
    BY <1>0, <1>4, <2>1 DEF InitialFails, locals, TypeOK
<1>5. CASE TimedOut
  <2>1. rows' \in Seq(RowType) /\ pc' = "idle"
    BY <1>0, <1>5, AnonymousType, ResultIsRow DEF TimedOut, Failure
  <2>2. QED
    BY <1>0, <1>5, <2>1 DEF TimedOut, locals, TypeOK
<1>6. CASE GetMessage
  BY <1>0, <1>6 DEF GetMessage, locals, TypeOK
<1>7. CASE KeepPolling
  <2>1. warnings' \in SUBSET Warning
    BY <1>0, <1>7 DEF KeepPolling, Warning
  <2>2. gets' \in Seq({"ok", "transient", "raised"})
    BY <1>0, <1>7, AppendToSeq DEF KeepPolling
  <2>3. QED
    BY <1>0, <1>7, <2>1, <2>2, GenieAssumption DEF KeepPolling, TypeOK
<1>8. CASE Terminal
  <2>1. warnings' \in SUBSET Warning
    BY <1>0, <1>8 DEF Terminal, Warning
  <2>2. gets' \in Seq({"ok", "transient", "raised"})
    BY <1>0, <1>8, AppendToSeq DEF Terminal
  <2>3. rows' \in Seq(RowType) /\ pc' = "idle"
    BY <1>0, <1>8, <2>1, ResultIsRow DEF Terminal, Failure
  <2>4. QED
    BY <1>0, <1>8, <2>1, <2>2, <2>3, GenieAssumption DEF Terminal, TypeOK
<1>9. CASE TransientFailure
  <2>0. gets' \in Seq({"ok", "transient", "raised"})
    BY <1>0, <1>9, AppendToSeq DEF TransientFailure
  <2>1. transient' \in 0..(MaxRetries + 1)
    BY <1>0, <1>9, GenieAssumption DEF TransientFailure, RetryInv, Polling
  <2>2. warnings' \in SUBSET Warning
    BY <1>0, <1>9 DEF TransientFailure, Warning
  <2>3. rows' \in Seq(RowType) /\ pc' \in {"idle", "sleep"}
    BY <1>0, <1>9, AnonymousType, ResultIsRow DEF TransientFailure, Failure
  <2>4. QED
    BY <1>0, <1>9, <2>0, <2>1, <2>2, <2>3 DEF TransientFailure, TypeOK
<1>10. CASE GetRaises
  <2>1. rows' \in Seq(RowType) /\ pc' = "idle"
    BY <1>0, <1>10, AnonymousType, ResultIsRow DEF GetRaises, Failure
  <2>2. gets' \in Seq({"ok", "transient", "raised"})
    BY <1>0, <1>10, AppendToSeq DEF GetRaises
  <2>3. QED
    BY <1>0, <1>10, <2>1, <2>2 DEF GetRaises, locals, TypeOK
<1>11. CASE Sleep
  BY <1>0, <1>11, GenieAssumption DEF Sleep, TypeOK
<1>12. CASE Tick
  <2>1. pc' \in {"calling", "getting"}
    BY <1>12 DEF Tick
  <2>2. QED
    BY <1>0, <1>12, <2>1 DEF Tick, TypeOK
<1>13. CASE Accept
  <2>1. pc = "calling" /\ pc # "idle"
    BY <1>13 DEF Accept
  <2>2. posted[Here] \in PostType /\ posted # <<>>
    BY <2>1, OpenQuestion
  <2> DEFINE m == Len(messages) + 1
             new == [conversation |-> IF reuse = None THEN m ELSE reuse, state |-> "ASKING_AI"]
  <2>3. /\ messages' = Append(messages, new)
        /\ posted' = [posted EXCEPT ![Here] = [posted[Here] EXCEPT !.message = m]]
    BY <1>13 DEF Accept
  <2>4. new \in MessageType /\ [posted[Here] EXCEPT !.message = m] \in PostType
    <3>1. m \in Nat \ {None} /\ "ASKING_AI" \in MessageState
      BY <1>0 DEF MessageState, Intermediate, None
    <3>2. QED
      BY <1>0, <2>2, <3>1 DEF MessageType, PostType
  <2>5. messages' \in Seq(MessageType) /\ posted' \in Seq(PostType)
    BY <1>0, <2>2, <2>3, <2>4, AppendToSeq, PostedUpdate
  <2>6. QED
    BY <1>0, <1>13, <2>1, <2>5 DEF Accept, locals, TypeOK
<1>14. ASSUME NEW m \in DOMAIN messages, Work(m) PROVE TypeOK'
  <2>1. PICK s \in MessageState :
          messages' = [messages EXCEPT ![m] = [messages[m] EXCEPT !.state = s]]
    BY <1>14, WorkMoves
  <2>2. messages' \in Seq(MessageType)
    <3>1. m \in 1..Len(messages) /\ messages[m] \in MessageType
      BY <1>0
    <3>2. [messages[m] EXCEPT !.state = s] \in MessageType
      BY <3>1 DEF MessageType
    <3>3. QED
      BY <1>0, <2>1, <3>1, <3>2, ReplaceInSeq
  <2>3. UNCHANGED <<pc, locals, rows, posted, gets>>
    BY <1>14 DEF Work
  <2>4. QED
    BY <2>2, <2>3 DEF locals, TypeOK
<1>15. CASE UNCHANGED vars
  BY <1>15 DEF vars, locals, TypeOK
<1>16. QED
  BY <1>1, <1>2, <1>3, <1>4, <1>5, <1>6, <1>7, <1>8, <1>9, <1>10, <1>11, <1>12, <1>13, <1>14,
     <1>15 DEF Next, Adapter

-----------------------------------------------------------------------------
(* What a step may do to the service's messages: it adds one or changes    *)
(* the state of one, and completed stays completed or expires.             *)
Done == {"COMPLETED", "QUERY_RESULT_EXPIRED"}

MessagesGrow ==
  \A m \in 1..Len(messages) :
    /\ m \in 1..Len(messages')
    /\ messages'[m].conversation = messages[m].conversation
    /\ messages[m].state \in Done => messages'[m].state \in Done

LEMMA MessagesStep ==
  ASSUME TypeOK, [Next]_vars
  PROVE  MessagesGrow
<1>0. messages \in Seq(MessageType)
  BY DEF TypeOK
<1>1. CASE UNCHANGED messages
  BY <1>0, <1>1 DEF MessagesGrow
<1>2. CASE Accept
  <2>1. PICK new : messages' = Append(messages, new)
    BY <1>2 DEF Accept
  <2>2. QED
    BY <1>0, <2>1 DEF MessagesGrow
<1>3. ASSUME NEW m \in DOMAIN messages, Work(m) PROVE MessagesGrow
  <2>1. PICK s \in MessageState :
          /\ messages' = [messages EXCEPT ![m] = [messages[m] EXCEPT !.state = s]]
          /\ messages[m].state \in TerminalStates =>
               messages[m].state = "COMPLETED" /\ s = "QUERY_RESULT_EXPIRED"
    BY <1>3, WorkMoves
  <2>2. messages[m] \in MessageType /\ m \in 1..Len(messages)
    BY <1>0
  <2>3. Len(messages') = Len(messages)
    BY <1>0, <2>1
  <2>4. ASSUME NEW k \in 1..Len(messages)
        PROVE  messages'[k] = IF k = m THEN [messages[m] EXCEPT !.state = s] ELSE messages[k]
    BY <1>0, <2>1
  <2>5. messages[m].state \in Done => messages[m].state \in TerminalStates
    BY DEF Done, TerminalStates, TerminalSuccess, TerminalFailure
  <2>6. ASSUME NEW k \in 1..Len(messages)
        PROVE  /\ messages'[k].conversation = messages[k].conversation
               /\ messages[k].state \in Done => messages'[k].state \in Done
    <3>1. CASE k = m
      BY <2>1, <2>2, <2>4, <2>5, <3>1 DEF MessageType, Done
    <3>2. CASE k # m
      BY <2>4, <3>2
    <3>3. QED
      BY <3>1, <3>2
  <2>7. QED
    BY <2>3, <2>6 DEF MessagesGrow
<1>4. CASE Invoke \/ Adapter \/ Tick \/ UNCHANGED vars
  BY <1>1, <1>4 DEF Adapter, Invoke, Post, InitialReturns, InitialFails, TimedOut, GetMessage,
                    KeepPolling, Terminal, TransientFailure, GetRaises, Sleep, Tick, vars
<1>5. QED
  BY <1>2, <1>3, <1>4 DEF Next

(* What a step may do to the rows: none, or invoke returns one, which      *)
(* names no message, or the one polled, and is COMPLETED as that one is.   *)
RowReturned ==
  LET row == rows'[Len(rows) + 1]
  IN /\ pc # "idle" /\ pc' = "idle"
     /\ UNCHANGED <<reuse, messages, posted>>
     /\ Len(rows') = Len(rows) + 1
     /\ \A i \in 1..Len(rows) : rows'[i] = rows[i]
     /\ \/ row.message = None /\ row.status # "COMPLETED"
        \/ /\ Polling
           /\ row.message = ids.message /\ row.conversation = ids.conversation
           /\ row.status = "COMPLETED" => messages[ids.message].state = "COMPLETED"

LEMMA AnonymousReturn ==
  ASSUME TypeOK, NEW status \in {"FAILED", "TIMEOUT"}, NEW error \in Failure, pc # "idle",
         Result(status, Anonymous, FALSE, warnings, error), UNCHANGED <<reuse, messages, posted>>
  PROVE  RowReturned
<1>1. rows \in Seq(RowType) /\ warnings \in SUBSET Warning
  BY DEF TypeOK
<1>2. status \in {"COMPLETED", "FAILED", "TIMEOUT"} /\ FALSE \in BOOLEAN
  OBVIOUS
<1>3. /\ pc' = "idle" /\ Len(rows') = Len(rows) + 1
      /\ \A j \in 1..Len(rows) : rows'[j] = rows[j]
      /\ rows'[Len(rows) + 1].status = status
      /\ rows'[Len(rows) + 1].message = Anonymous.message
  BY <1>1, <1>2, AnonymousType, ResultIsRow
<1>4. QED
  BY <1>3 DEF RowReturned, Anonymous

LEMMA ReturnStep ==
  ASSUME TypeOK, InitialFails \/ TimedOut \/ Terminal \/ GetRaises
  PROVE  RowReturned
<1>0. rows \in Seq(RowType) /\ warnings \in SUBSET Warning
  BY DEF TypeOK
<1>1. CASE InitialFails
  BY <1>1, AnonymousReturn DEF InitialFails, Failure, locals
<1>2. CASE TimedOut
  BY <1>2, AnonymousReturn DEF TimedOut, Failure, locals
<1>3. CASE GetRaises
  BY <1>3, AnonymousReturn DEF GetRaises, Failure, locals
<1>4. CASE Terminal
  <2>1. warnings' \in SUBSET Warning /\ ids \in [conversation: Nat, message: Nat]
    BY <1>0, <1>4 DEF Terminal, Warning, TypeOK
  <2>2. pc = "getting" /\ UNCHANGED <<reuse, messages, posted>>
    BY <1>4 DEF Terminal
  <2>3. PICK trace \in BOOLEAN :
          \/ /\ messages[ids.message].state \in TerminalSuccess
             /\ Result("COMPLETED", ids, trace, warnings', "none")
          \/ Result("FAILED", ids, trace, warnings', "service")
    BY <1>4 DEF Terminal
  <2>4. CASE /\ messages[ids.message].state \in TerminalSuccess
             /\ Result("COMPLETED", ids, trace, warnings', "none")
    BY <1>0, <2>1, <2>2, <2>4, ResultIsRow DEF RowReturned, Polling, TerminalSuccess, Failure
  <2>5. CASE Result("FAILED", ids, trace, warnings', "service")
    BY <1>0, <2>1, <2>2, <2>5, ResultIsRow DEF RowReturned, Polling, Failure
  <2>6. QED
    BY <2>3, <2>4, <2>5
<1>5. QED
  BY <1>1, <1>2, <1>3, <1>4

LEMMA TransientStep ==
  ASSUME TypeOK, TransientFailure
  PROVE  \/ RowReturned
         \/ pc = "getting" /\ pc' = "sleep" /\ UNCHANGED <<reuse, ids, rows, messages, posted>>
BY AnonymousReturn DEF TransientFailure, Failure

LEMMA RowsStep ==
  ASSUME TypeOK, [Next]_vars
  PROVE  UNCHANGED rows \/ RowReturned
<1>1. CASE InitialFails \/ TimedOut \/ Terminal \/ GetRaises
  BY <1>1, ReturnStep
<1>2. CASE TransientFailure
  BY <1>2, TransientStep
<1>3. CASE Invoke \/ Post \/ InitialReturns \/ GetMessage \/ KeepPolling \/ Sleep \/ Tick \/ Accept
  BY <1>3 DEF Invoke, Post, InitialReturns, GetMessage, KeepPolling, Sleep, Tick, Accept
<1>4. CASE (\E m \in DOMAIN messages : Work(m)) \/ UNCHANGED vars
  BY <1>4 DEF Work, vars
<1>5. QED
  BY <1>1, <1>2, <1>3, <1>4 DEF Next, Adapter

-----------------------------------------------------------------------------
(* The ledger: each question, its message and its row.                     *)
Placed(p, all) ==
  p.message # None => p.message <= Len(all) /\ p.reuse \in {None, all[p.message].conversation}

LEMMA InitLedger == Init => LedgerInv
BY DEF Init, LedgerInv, Polling

(* A step that leaves the ledger's questions alone keeps them placed.      *)
LEMMA StillPlaced ==
  ASSUME TypeOK, LedgerInv, MessagesGrow, TypeOK', NEW i \in 1..Len(posted)
  PROVE  Placed(posted[i], messages) /\ Placed(posted[i], messages')
<1>1. posted[i] \in PostType /\ messages \in Seq(MessageType) /\ messages' \in Seq(MessageType)
  <2>1. posted \in Seq(PostType) /\ messages \in Seq(MessageType)
    BY DEF TypeOK
  <2>2. messages' \in Seq(MessageType)
    BY DEF TypeOK
  <2>3. QED
    BY <2>1, <2>2
<1>2. Placed(posted[i], messages)
  BY DEF LedgerInv, Placed
<1>3. posted[i].message # None => posted[i].message \in 1..Len(messages)
  BY <1>1, <1>2 DEF Placed, PostType, None
<1>4. posted[i].message # None => posted[i].message \in 1..Len(messages')
                                   /\ messages'[posted[i].message].conversation
                                        = messages[posted[i].message].conversation
  BY <1>3 DEF MessagesGrow
<1>5. QED
  BY <1>1, <1>2, <1>4 DEF Placed

LEMMA StepLedger == TypeOK /\ LedgerInv /\ TypeOK' /\ [Next]_vars => LedgerInv'
<1> SUFFICES ASSUME TypeOK, LedgerInv, TypeOK', [Next]_vars PROVE LedgerInv'
  OBVIOUS
<1>0. /\ posted \in Seq(PostType) /\ rows \in Seq(RowType) /\ messages \in Seq(MessageType)
      /\ posted' \in Seq(PostType) /\ rows' \in Seq(RowType) /\ messages' \in Seq(MessageType)
      /\ pc \in {"idle", "post", "calling", "poll", "getting", "sleep"}
      /\ Len(posted) \in Nat /\ Len(rows) \in Nat
  <2>1. /\ posted \in Seq(PostType) /\ rows \in Seq(RowType) /\ messages \in Seq(MessageType)
        /\ pc \in {"idle", "post", "calling", "poll", "getting", "sleep"}
    BY DEF TypeOK
  <2>2. posted' \in Seq(PostType) /\ rows' \in Seq(RowType) /\ messages' \in Seq(MessageType)
    BY DEF TypeOK
  <2>3. QED
    BY <2>1, <2>2
<1>g. MessagesGrow
  BY MessagesStep
(* The conjunct on every question, where the ledger does not change. *)
<1>p. ASSUME UNCHANGED posted
      PROVE  \A i \in 1..Len(posted') : Placed(posted'[i], messages')
  <2>1. ASSUME NEW i \in 1..Len(posted) PROVE Placed(posted'[i], messages')
    BY <1>p, <1>g, StillPlaced DEF Placed
  <2>2. QED
    BY <1>p, <2>1
(* The same where the entry of the open question is replaced. *)
<1>h. ASSUME pc # "idle", NEW v \in PostType, posted' = [posted EXCEPT ![Here] = v], Placed(v, messages')
      PROVE  /\ \A i \in 1..Len(posted') : Placed(posted'[i], messages')
             /\ Len(posted') = Len(posted) /\ Here' = Here /\ posted'[Here] = v
  <2>1. Here \in 1..Len(posted) /\ posted # <<>>
    BY <1>h, OpenQuestion
  <2>2. /\ Len(posted') = Len(posted) /\ posted'[Here] = v
        /\ \A i \in 1..Len(posted) : i # Here => posted'[i] = posted[i]
    BY <1>0, <1>h, <2>1, PostedUpdate
  <2>3. ASSUME NEW i \in 1..Len(posted) PROVE Placed(posted'[i], messages')
    <3>1. CASE i = Here
      BY <1>h, <2>2, <3>1
    <3>2. CASE i # Here
      BY <1>g, <2>2, <3>2, StillPlaced DEF Placed
    <3>3. QED
      BY <3>1, <3>2
  <2>4. QED
    BY <2>2, <2>3 DEF Here
<1>1. CASE Invoke
  <2>1. PICK c : posted' = Append(posted, [sent |-> 0, reuse |-> c, message |-> None,
                                           told |-> FALSE]) /\ reuse' = c
    BY <1>1 DEF Invoke
  <2>2. /\ Len(posted') = Len(posted) + 1
        /\ posted'[Len(posted) + 1] = [sent |-> 0, reuse |-> c, message |-> None, told |-> FALSE]
        /\ \A i \in 1..Len(posted) : posted'[i] = posted[i]
    BY <1>0, <2>1
  <2>3. \A i \in 1..Len(posted') : Placed(posted'[i], messages')
    <3>1. ASSUME NEW i \in 1..Len(posted) PROVE Placed(posted'[i], messages')
      BY <1>g, <2>2, StillPlaced DEF Placed
    <3>2. Placed(posted'[Len(posted) + 1], messages')
      BY <2>2 DEF Placed
    <3>3. \A i \in 1..Len(posted') : i \in 1..Len(posted) \/ i = Len(posted) + 1
      BY <1>0, <2>2
    <3>4. QED
      BY <3>1, <3>2, <3>3
  <2>4. pc = "idle" /\ pc' = "post" /\ UNCHANGED rows
    BY <1>1 DEF Invoke
  <2>5. QED
    BY <1>0, <2>1, <2>2, <2>3, <2>4 DEF LedgerInv, Placed, Here, Polling
<1>2. CASE Post
  <2> DEFINE v == [posted[Here] EXCEPT !.sent = posted[Here].sent + 1]
  <2>1. pc = "post" /\ pc' = "calling" /\ posted' = [posted EXCEPT ![Here] = v]
        /\ UNCHANGED <<reuse, rows>>
    BY <1>2 DEF Post, locals
  <2>2. posted[Here] \in PostType /\ posted[Here].sent = 0 /\ posted[Here].message = None
    BY <2>1, OpenQuestion DEF LedgerInv
  <2>3. v \in PostType /\ v.message = None /\ v.reuse = posted[Here].reuse
    BY <2>2 DEF PostType
  <2>4. Placed(v, messages')
    BY <2>3 DEF Placed
  <2> HIDE DEF v
  <2>5. /\ \A i \in 1..Len(posted') : Placed(posted'[i], messages')
        /\ Len(posted') = Len(posted) /\ Here' = Here /\ posted'[Here] = v
    BY <1>h, <2>1, <2>3, <2>4
  <2>6. QED
    BY <1>0, <2>1, <2>3, <2>5 DEF LedgerInv, Placed, Polling
<1>3. CASE InitialReturns
  <2> DEFINE v == [posted[Here] EXCEPT !.told = TRUE]
             m == posted[Here].message
  <2>1. /\ pc = "calling" /\ pc' = "poll" /\ posted' = [posted EXCEPT ![Here] = v]
        /\ m # None /\ UNCHANGED <<reuse, rows, messages>>
        /\ ids' = [conversation |-> IF reuse # None THEN reuse ELSE messages[m].conversation,
                   message |-> m]
    BY <1>3 DEF InitialReturns
  <2>2. posted[Here] \in PostType /\ Here \in 1..Len(posted)
    BY <2>1, OpenQuestion
  <2>3. v \in PostType /\ v.message = m /\ v.reuse = posted[Here].reuse
    BY <2>2 DEF PostType
  <2>4. reuse = posted[Here].reuse /\ Placed(posted[Here], messages)
    BY <2>1, <2>2 DEF LedgerInv, Placed
  <2>5. Placed(v, messages')
    BY <2>1, <2>3, <2>4 DEF Placed
  <2>6. ids'.message = m /\ ids'.conversation = messages[m].conversation
    BY <2>1, <2>4 DEF Placed
  <2> HIDE DEF v, m
  <2>7. /\ \A i \in 1..Len(posted') : Placed(posted'[i], messages')
        /\ Len(posted') = Len(posted) /\ Here' = Here /\ posted'[Here] = v
    BY <1>h, <2>1, <2>3, <2>5
  <2>8. QED
    BY <1>0, <2>1, <2>3, <2>4, <2>6, <2>7 DEF LedgerInv, Placed
<1>4. CASE RowReturned
  <2>1. \A i \in 1..Len(posted') : Placed(posted'[i], messages')
    BY <1>4, <1>p DEF RowReturned
  <2>2. QED
    BY <1>0, <1>4, <2>1 DEF RowReturned, LedgerInv, Placed, Polling
<1>5. CASE /\ pc' = pc \/ (Polling /\ Polling')
           /\ UNCHANGED <<reuse, ids, rows, messages, posted>>
  <2>1. \A i \in 1..Len(posted') : Placed(posted'[i], messages')
    BY <1>5, <1>p
  <2>2. QED
    BY <1>0, <1>5, <2>1 DEF LedgerInv, Placed, Polling, Here
<1>6. CASE Accept
  <2> DEFINE m == Len(messages) + 1
             c == IF reuse = None THEN m ELSE reuse
             v == [posted[Here] EXCEPT !.message = m]
  <2>1. /\ pc = "calling" /\ UNCHANGED <<pc, reuse, rows>>
        /\ messages' = Append(messages, [conversation |-> c, state |-> "ASKING_AI"])
        /\ posted' = [posted EXCEPT ![Here] = v]
    BY <1>6 DEF Accept, locals
  <2>2. posted[Here] \in PostType /\ reuse = posted[Here].reuse
    BY <2>1, OpenQuestion DEF LedgerInv
  <2>3. v \in PostType /\ v.message = m /\ v.reuse = reuse
    <3>1. m \in Nat
      BY <1>0
    <3>2. QED
      BY <2>2, <3>1 DEF PostType
  <2>4. Len(messages') = m /\ messages'[m].conversation = c
    BY <1>0, <2>1
  <2>5. Placed(v, messages')
    BY <1>0, <2>3, <2>4 DEF Placed
  <2> HIDE DEF v, m, c
  <2>6. /\ \A i \in 1..Len(posted') : Placed(posted'[i], messages')
        /\ Len(posted') = Len(posted) /\ Here' = Here /\ posted'[Here] = v
    BY <1>h, <2>1, <2>3, <2>5
  <2>7. QED
    BY <1>0, <2>1, <2>2, <2>3, <2>6 DEF LedgerInv, Placed, Polling
<1>7. ASSUME NEW k \in DOMAIN messages, Work(k) PROVE LedgerInv'
  <2>1. UNCHANGED <<pc, reuse, ids, rows, posted>>
    BY <1>7 DEF Work, locals
  <2>2. \A i \in 1..Len(posted') : Placed(posted'[i], messages')
    BY <2>1, <1>p
  <2>3. ASSUME Polling PROVE messages'[ids.message].conversation = messages[ids.message].conversation
    <3>1. ids.message \in 1..Len(messages)
      BY <2>3, OpenQuestion DEF Polling
    <3>2. QED
      BY <1>g, <3>1 DEF MessagesGrow
  <2>4. QED
    BY <1>0, <2>1, <2>2, <2>3 DEF LedgerInv, Placed, Polling, Here
<1>8. CASE InitialFails \/ TimedOut \/ Terminal \/ TransientFailure \/ GetRaises
  BY <1>4, <1>5, <1>8, ReturnStep, TransientStep DEF Polling
<1>9. CASE GetMessage \/ KeepPolling \/ Sleep \/ Tick \/ UNCHANGED vars
  BY <1>5, <1>9 DEF GetMessage, KeepPolling, Sleep, Tick, vars, locals, Polling
<1>10. QED
  BY <1>1, <1>2, <1>3, <1>6, <1>7, <1>8, <1>9 DEF Next, Adapter

-----------------------------------------------------------------------------
(* Answers. Old rows keep what they say: their question's ledger entry is  *)
(* closed, and the service forgets neither a conversation nor that it      *)
(* completed a message.                                                    *)
Own(row, p, all) ==
  /\ row.message # None => /\ row.message = p.message
                           /\ row.conversation = all[row.message].conversation
                           /\ p.reuse \in {None, row.conversation}
  /\ row.status = "COMPLETED" => row.message # None /\ all[row.message].state \in Done

LEMMA AnswerIsOwn == AnswerIsItsOwn <=> \A i \in DOMAIN rows : Own(rows[i], posted[i], messages)
BY DEF AnswerIsItsOwn, Own, Done

(* The entries of questions that have their row do not change.             *)
LEMMA ClosedEntries ==
  ASSUME TypeOK, LedgerInv, [Next]_vars, NEW i \in 1..Len(rows)
  PROVE  i \in 1..Len(posted) /\ posted'[i] = posted[i]
<1>0. posted \in Seq(PostType) /\ rows \in Seq(RowType) /\ Len(posted) \in Nat /\ Len(rows) \in Nat
  BY DEF TypeOK
<1>1. i \in 1..Len(posted) /\ (pc # "idle" => i # Here)
  BY <1>0, OpenQuestion DEF LedgerInv, Here
<1>2. CASE pc # "idle" /\ \E v : posted' = [posted EXCEPT ![Here] = v]
  BY <1>0, <1>1, <1>2
<1>3. CASE \E v : posted' = Append(posted, v)
  BY <1>0, <1>1, <1>3
<1>4. CASE UNCHANGED posted
  BY <1>1, <1>4
<1>5. CASE Post
  <2>1. pc # "idle" /\ posted' = [posted EXCEPT ![Here] = [posted[Here] EXCEPT !.sent = @ + 1]]
    BY <1>5 DEF Post
  <2>2. QED
    BY <1>2, <2>1
<1>6. CASE InitialReturns
  <2>1. pc # "idle" /\ posted' = [posted EXCEPT ![Here] = [posted[Here] EXCEPT !.told = TRUE]]
    BY <1>6 DEF InitialReturns
  <2>2. QED
    BY <1>2, <2>1
<1>7. CASE Accept
  <2>1. /\ pc # "idle"
        /\ posted' = [posted EXCEPT ![Here] = [posted[Here] EXCEPT !.message = Len(messages) + 1]]
    BY <1>7 DEF Accept
  <2>2. QED
    BY <1>2, <2>1
<1>8. CASE Invoke
  BY <1>3, <1>8 DEF Invoke
<1>9. CASE \/ InitialFails \/ TimedOut \/ GetMessage \/ KeepPolling \/ Terminal
           \/ TransientFailure \/ GetRaises \/ Sleep \/ Tick \/ UNCHANGED vars
  BY <1>4, <1>9 DEF InitialFails, TimedOut, GetMessage, KeepPolling, Terminal, TransientFailure,
                    GetRaises, Sleep, Tick, vars
<1>10. CASE \E m \in DOMAIN messages : Work(m)
  BY <1>4, <1>10 DEF Work
<1>11. QED
  BY <1>5, <1>6, <1>7, <1>8, <1>9, <1>10 DEF Next, Adapter

LEMMA InitAnswers == Init => AnswerIsItsOwn
BY DEF Init, AnswerIsItsOwn

LEMMA StepAnswers ==
  TypeOK /\ LedgerInv /\ AnswerIsItsOwn /\ TypeOK' /\ [Next]_vars => AnswerIsItsOwn'
<1> SUFFICES ASSUME TypeOK, LedgerInv, AnswerIsItsOwn, TypeOK', [Next]_vars
             PROVE  \A i \in DOMAIN rows' : Own(rows'[i], posted'[i], messages')
  BY DEF AnswerIsItsOwn, Own, Done
<1>0. /\ rows \in Seq(RowType) /\ messages \in Seq(MessageType) /\ posted \in Seq(PostType)
      /\ rows' \in Seq(RowType) /\ Len(rows) \in Nat
  BY DEF TypeOK
<1>1. MessagesGrow
  BY MessagesStep
<1>2. ASSUME NEW i \in 1..Len(rows) PROVE Own(rows[i], posted'[i], messages')
  <2>1. i \in 1..Len(posted) /\ posted'[i] = posted[i] /\ posted[i] \in PostType
    BY <1>0, ClosedEntries
  <2>2. Own(rows[i], posted[i], messages)
    BY <1>0, AnswerIsOwn
  <2>3. rows[i].message # None => rows[i].message \in 1..Len(messages)
    <3>1. ASSUME rows[i].message # None PROVE rows[i].message \in 1..Len(messages)
      <4>1. rows[i].message = posted[i].message
        BY <2>2, <3>1 DEF Own
      <4>2. posted[i].message <= Len(messages) /\ posted[i].message \in Nat
        BY <2>1, <3>1, <4>1 DEF LedgerInv, PostType
      <4>3. QED
        BY <1>0, <3>1, <4>1, <4>2 DEF None
    <3>2. QED
      BY <3>1
  <2>4. QED
    BY <1>1, <2>1, <2>2, <2>3 DEF Own, MessagesGrow
<1>3. CASE UNCHANGED rows
  BY <1>0, <1>2, <1>3
<1>4. CASE RowReturned
  <2> DEFINE new == rows'[Len(rows) + 1]
             p   == posted[Len(rows) + 1]
  <2>1. UNCHANGED <<messages, posted>> /\ Len(rows') = Len(rows) + 1 /\ pc # "idle"
        /\ \A i \in 1..Len(rows) : rows'[i] = rows[i]
    BY <1>4 DEF RowReturned
  <2>2. Here = Len(rows) + 1
    BY <2>1, OpenQuestion DEF Here
  <2>3. Own(new, p, messages)
    <3>1. CASE new.message = None /\ new.status # "COMPLETED"
      BY <3>1 DEF Own
    <3>2. CASE /\ Polling
               /\ new.message = ids.message /\ new.conversation = ids.conversation
               /\ new.status = "COMPLETED" => messages[ids.message].state = "COMPLETED"
      <4>1. /\ ids.message # None /\ ids.message = p.message
            /\ ids.conversation = messages[ids.message].conversation
        BY <2>2, <3>2 DEF LedgerInv
      <4>2. Here \in 1..Len(posted)
        BY <2>1, OpenQuestion
      <4>3. p.reuse \in {None, messages[ids.message].conversation}
        BY <2>2, <4>1, <4>2 DEF LedgerInv
      <4>4. QED
        BY <3>2, <4>1, <4>3 DEF Own, Done
    <3>3. QED
      BY <1>4, <3>1, <3>2 DEF RowReturned
  <2>4. \A i \in DOMAIN rows' : i \in 1..Len(rows) \/ i = Len(rows) + 1
    BY <1>0, <2>1
  <2>5. ASSUME NEW i \in DOMAIN rows' PROVE Own(rows'[i], posted'[i], messages')
    BY <1>2, <2>1, <2>3, <2>4, <2>5
  <2>6. QED
    BY <2>5
<1>5. QED
  BY <1>3, <1>4, RowsStep

-----------------------------------------------------------------------------
(* Retries. Ends(g, t): g ends with exactly t transient failures.          *)
Poll == {"ok", "transient", "raised"}

Ends(g, t) ==
  /\ t <= Len(g)
  /\ \A i \in (Len(g) - t + 1)..Len(g) : g[i] = "transient"
  /\ t < Len(g) => g[Len(g) - t] # "transient"

Spent(g) ==
  /\ Len(g) > MaxRetries
  /\ \A i \in (Len(g) - MaxRetries)..Len(g) : g[i] = "transient"

LEMMA EndsGrows ==
  ASSUME NEW g \in Seq(Poll), NEW t \in Nat, Ends(g, t)
  PROVE  Ends(Append(g, "transient"), t + 1)
<1>1. /\ Len(Append(g, "transient")) = Len(g) + 1 /\ Len(g) \in Nat
      /\ Append(g, "transient")[Len(g) + 1] = "transient"
      /\ \A i \in 1..Len(g) : Append(g, "transient")[i] = g[i]
  BY AppendToSeq DEF Poll
<1>2. QED
  BY <1>1 DEF Ends

LEMMA EndsAnew ==
  ASSUME NEW g \in Seq(Poll), NEW x \in Poll \ {"transient"}
  PROVE  Ends(Append(g, x), 0)
<1>1. /\ Len(Append(g, x)) = Len(g) + 1 /\ Len(g) \in Nat
      /\ Append(g, x)[Len(g) + 1] = x
  BY AppendToSeq
<1>2. QED
  BY <1>1 DEF Ends

(* The count decides whether the budget is spent.                          *)
LEMMA SpentByCount ==
  ASSUME NEW g \in Seq(Poll), NEW t \in Nat, Ends(g, t)
  PROVE  Spent(g) <=> t > MaxRetries
<1>0. Len(g) \in Nat /\ MaxRetries \in Nat
  BY GenieAssumption
<1>1. ASSUME t > MaxRetries PROVE Spent(g)
  BY <1>0, <1>1 DEF Ends, Spent
<1>2. ASSUME Spent(g), t <= MaxRetries PROVE FALSE
  <2>1. t < Len(g) /\ Len(g) - t \in (Len(g) - MaxRetries)..Len(g)
    BY <1>0, <1>2 DEF Spent
  <2>2. QED
    BY <1>2, <2>1 DEF Ends, Spent
<1>3. QED
  BY <1>0, <1>1, <1>2

(* RetryInv and RetryBudget in these terms.                                *)
LEMMA Budget ==
  ASSUME TypeOK
  PROVE  /\ RetryInv <=> /\ pc \in {"post", "calling"} => gets = <<>> /\ transient = 0
                         /\ Polling => transient <= MaxRetries /\ Ends(gets, transient)
         /\ RetryBudget <=> /\ Polling => ~Spent(gets)
                            /\ pc = "idle" /\ rows # <<>> =>
                                 (rows[Len(rows)].error = "retries" <=> Spent(gets))
BY DEF RetryInv, RetryBudget, Exhausted, Spent, Ends, Polling

LEMMA InitRetry == Init => RetryInv /\ RetryBudget
BY DEF Init, RetryInv, RetryBudget, Polling

LEMMA StepRetry ==
  TypeOK /\ LedgerInv /\ RetryInv /\ RetryBudget /\ TypeOK' /\ [Next]_vars
    => RetryInv' /\ RetryBudget'
<1> SUFFICES ASSUME TypeOK, LedgerInv, RetryInv, RetryBudget, TypeOK', [Next]_vars
             PROVE  RetryInv' /\ RetryBudget'
  OBVIOUS
<1>0. /\ gets \in Seq(Poll) /\ gets' \in Seq(Poll) /\ transient \in Nat /\ transient' \in Nat
      /\ rows \in Seq(RowType) /\ warnings \in SUBSET Warning /\ MaxRetries \in Nat
      /\ pc' \in {"idle", "post", "calling", "poll", "getting", "sleep"}
  BY GenieAssumption DEF TypeOK, Poll
(* A step that goes on polling, and one that returns. *)
<1>a. ASSUME Polling', transient' <= MaxRetries, Ends(gets', transient')
      PROVE  RetryInv' /\ RetryBudget'
  <2>1. ~Spent(gets')
    BY <1>0, <1>a, SpentByCount
  <2>2. pc' \notin {"idle", "post", "calling"}
    BY <1>a DEF Polling
  <2>3. QED
    BY <1>a, <2>1, <2>2 DEF RetryInv, RetryBudget, Exhausted, Spent, Ends, Polling
<1>b. ASSUME NEW error \in Failure, rows' # <<>>, rows'[Len(rows')].error = error, pc' = "idle",
             error = "retries" <=> Spent(gets')
      PROVE  RetryInv' /\ RetryBudget'
  BY <1>b DEF RetryInv, RetryBudget, Exhausted, Spent, Polling
<1>c. ASSUME NEW status \in {"COMPLETED", "FAILED", "TIMEOUT"},
             NEW named \in [conversation: Nat, message: Nat], NEW trace \in BOOLEAN,
             NEW w \in SUBSET Warning, NEW error \in Failure,
             Result(status, named, trace, w, error),
             error = "retries" <=> Spent(gets')
      PROVE  RetryInv' /\ RetryBudget'
  <2>1. /\ pc' = "idle" /\ Len(rows') = Len(rows) + 1 /\ rows' # <<>>
        /\ rows'[Len(rows) + 1].error = error
    BY <1>0, <1>c, ResultIsRow
  <2>2. QED
    BY <1>b, <1>c, <2>1
<1>d. ASSUME Polling PROVE transient <= MaxRetries /\ Ends(gets, transient) /\ ~Spent(gets)
  BY <1>d, Budget
<1>1. CASE Invoke
  BY <1>1 DEF Invoke, RetryInv, RetryBudget, Polling
<1>2. CASE Post \/ Accept
  BY <1>2 DEF Post, Accept, locals, RetryInv, RetryBudget, Polling
<1>3. CASE InitialReturns
  <2>1. gets' = <<>> /\ transient' = 0 /\ pc' = "poll"
    BY <1>3 DEF InitialReturns, RetryInv
  <2>2. Ends(gets', transient')
    BY <2>1 DEF Ends
  <2>3. QED
    BY <1>0, <1>a, <2>1, <2>2 DEF Polling
<1>4. CASE InitialFails
  <2>1. gets' = <<>>
    BY <1>4 DEF InitialFails, RetryInv
  <2>2. ~Spent(gets')
    BY <1>0, <2>1 DEF Spent
  <2>3. QED
    BY <1>4, <1>c, <2>2, AnonymousType, <1>0 DEF InitialFails, Failure
<1>5. CASE TimedOut
  <2>1. ~Spent(gets')
    BY <1>5, <1>d DEF TimedOut, Polling
  <2>2. QED
    BY <1>5, <1>c, <2>1, AnonymousType, <1>0 DEF TimedOut, Failure
<1>6. CASE GetMessage \/ Sleep
  <2>1. Polling /\ Polling' /\ UNCHANGED <<gets, transient>>
    BY <1>6 DEF GetMessage, Sleep, Polling, locals
  <2>2. QED
    BY <1>a, <1>d, <2>1
<1>7. CASE KeepPolling
  <2>1. gets' = Append(gets, "ok") /\ transient' = 0 /\ Polling'
    BY <1>7 DEF KeepPolling, Polling
  <2>2. QED
    BY <1>0, <1>a, <2>1, EndsAnew DEF Poll
<1>8. CASE Terminal
  <2>1. gets' = Append(gets, "ok") /\ warnings' \in SUBSET Warning
        /\ ids \in [conversation: Nat, message: Nat]
    BY <1>8 DEF Terminal, TypeOK
  <2>2. ~Spent(gets')
    <3>1. Ends(gets', 0)
      BY <1>0, <2>1, EndsAnew DEF Poll
    <3>2. QED
      BY <1>0, <3>1, SpentByCount
  <2>3. PICK trace \in BOOLEAN : \/ Result("COMPLETED", ids, trace, warnings', "none")
                                 \/ Result("FAILED", ids, trace, warnings', "service")
    BY <1>8 DEF Terminal
  <2>4. QED
    BY <1>c, <2>1, <2>2, <2>3 DEF Failure
<1>9. CASE TransientFailure
  <2>1. gets' = Append(gets, "transient") /\ transient' = transient + 1 /\ pc = "getting"
    BY <1>9 DEF TransientFailure
  <2>2. Ends(gets', transient')
    BY <1>0, <1>d, <2>1, EndsGrows DEF Polling
  <2>3. CASE transient' > MaxRetries /\ Result("FAILED", Anonymous, FALSE, warnings, "retries")
    <3>1. Spent(gets')
      BY <1>0, <2>2, <2>3, SpentByCount
    <3>2. QED
      BY <1>0, <1>c, <2>3, <3>1, AnonymousType DEF Failure
  <2>4. CASE transient' <= MaxRetries /\ pc' = "sleep"
    BY <1>a, <2>2, <2>4 DEF Polling
  <2>5. QED
    BY <1>9, <2>3, <2>4 DEF TransientFailure
<1>10. CASE GetRaises
  <2>1. gets' = Append(gets, "raised")
    BY <1>10 DEF GetRaises
  <2>2. ~Spent(gets')
    <3>1. Ends(gets', 0)
      BY <1>0, <2>1, EndsAnew DEF Poll
    <3>2. QED
      BY <1>0, <3>1, SpentByCount
  <2>3. QED
    BY <1>0, <1>10, <1>c, <2>2, AnonymousType DEF GetRaises, Failure
<1>11. CASE Tick \/ (\E m \in DOMAIN messages : Work(m)) \/ UNCHANGED vars
  BY <1>11 DEF Tick, Work, vars, locals, RetryInv, RetryBudget, Exhausted, Polling
<1>12. QED
  BY <1>1, <1>2, <1>3, <1>4, <1>5, <1>6, <1>7, <1>8, <1>9, <1>10, <1>11 DEF Next, Adapter

-----------------------------------------------------------------------------
(* Spacing. Every get_message call but the last was followed by a sleep,   *)
(* so polls cost an interval each, and the last began before the deadline. *)
LEMMA Multiples ==
  ASSUME NEW n \in Nat, NEW p \in Nat
  PROVE  n * p \in Nat /\ (n + 1) * p = n * p + p /\ ((n + 1) - 1) * p = n * p
OBVIOUS

LEMMA InitSpacing == Init => SpacingInv /\ PollsBounded
BY DEF Init, SpacingInv, PollsBounded

LEMMA StepSpacing ==
  TypeOK /\ RetryInv /\ SpacingInv /\ PollsBounded /\ TypeOK' /\ [Next]_vars
    => SpacingInv' /\ PollsBounded'
<1> SUFFICES ASSUME TypeOK, RetryInv, SpacingInv, PollsBounded, TypeOK', [Next]_vars
             PROVE  SpacingInv' /\ PollsBounded'
  OBVIOUS
<1> DEFINE n == Len(gets)
<1>0. /\ gets \in Seq(Poll) /\ n \in Nat /\ clock \in Nat /\ deadline \in Nat
      /\ Timeout \in Nat /\ PollInterval \in Nat
  BY GenieAssumption DEF TypeOK, Poll
<1>m. /\ n * PollInterval \in Nat /\ (n + 1) * PollInterval = n * PollInterval + PollInterval
      /\ ((n + 1) - 1) * PollInterval = n * PollInterval
  BY <1>0, Multiples
(* A get_message call ends: it was the n-th and one, within the timeout. *)
<1>a. ASSUME pc = "getting", NEW x \in Poll, gets' = Append(gets, x)
      PROVE  /\ Len(gets') = n + 1 /\ PollsBounded'
             /\ n * PollInterval <= clock - (deadline - Timeout)
  <2>1. Len(gets') = n + 1
    BY <1>0, <1>a
  <2>2. n * PollInterval < Timeout /\ n * PollInterval <= clock - (deadline - Timeout)
    BY <1>a DEF SpacingInv
  <2>3. QED
    BY <1>0, <1>m, <2>1, <2>2 DEF PollsBounded
<1>b. ASSUME pc = "getting", NEW x \in Poll, gets' = Append(gets, x),
             pc' = "idle" \/ (pc' = "sleep" /\ UNCHANGED <<clock, deadline>>)
      PROVE  SpacingInv' /\ PollsBounded'
  <2>1. /\ Len(gets') = n + 1 /\ PollsBounded'
        /\ n * PollInterval <= clock - (deadline - Timeout)
    BY <1>a, <1>b
  <2>2. CASE pc' = "idle"
    BY <2>1, <2>2 DEF SpacingInv
  <2>3. CASE pc' = "sleep" /\ UNCHANGED <<clock, deadline>>
    <3>1. Len(gets') > 0 /\ (Len(gets') - 1) * PollInterval = n * PollInterval
      BY <1>0, <1>m, <2>1
    <3>2. QED
      BY <2>1, <2>3, <3>1 DEF SpacingInv
  <2>4. QED
    BY <1>b, <2>2, <2>3
<1>1. CASE Invoke
  BY <1>1 DEF Invoke, SpacingInv, PollsBounded
<1>2. CASE Post \/ Accept
  BY <1>2 DEF Post, Accept, locals, SpacingInv, PollsBounded
<1>3. CASE InitialReturns
  <2>1. gets' = <<>> /\ pc' = "poll" /\ clock' = clock /\ deadline' = clock + Timeout
    BY <1>3 DEF InitialReturns, RetryInv
  <2>2. Len(gets') * PollInterval = 0 /\ clock' - (deadline' - Timeout) = 0
    BY <1>0, <2>1
  <2>3. QED
    BY <2>1, <2>2 DEF SpacingInv, PollsBounded
<1>4. CASE InitialFails \/ TimedOut
  BY <1>4 DEF InitialFails, TimedOut, Result, SpacingInv, PollsBounded
<1>5. CASE GetMessage
  <2>1. /\ pc = "poll" /\ pc' = "getting" /\ clock < deadline
        /\ UNCHANGED <<clock, deadline, gets>>
    BY <1>0, <1>5 DEF GetMessage, DeadlinePassed, locals
  <2>2. n * PollInterval <= clock - (deadline - Timeout)
    BY <2>1 DEF SpacingInv
  <2>3. n * PollInterval < Timeout
    BY <1>0, <1>m, <2>1, <2>2
  <2>4. QED
    BY <2>1, <2>2, <2>3 DEF SpacingInv, PollsBounded
<1>6. CASE KeepPolling
  BY <1>b, <1>6 DEF KeepPolling, Poll
<1>7. CASE Terminal
  BY <1>b, <1>7 DEF Terminal, Result, Poll
<1>8. CASE TransientFailure
  BY <1>b, <1>8 DEF TransientFailure, Result, Poll
<1>9. CASE GetRaises
  BY <1>b, <1>9 DEF GetRaises, Result, Poll
<1>10. CASE Sleep
  <2>1. /\ pc = "sleep" /\ pc' = "poll" /\ clock' = clock + PollInterval
        /\ UNCHANGED <<deadline, gets>>
    BY <1>10 DEF Sleep
  <2>2. n > 0 /\ (n - 1) * PollInterval <= clock - (deadline - Timeout)
    BY <2>1 DEF SpacingInv
  <2>3. n * PollInterval = (n - 1) * PollInterval + PollInterval /\ (n - 1) * PollInterval \in Nat
    <3>1. n - 1 \in Nat /\ (n - 1) + 1 = n
      BY <1>0, <2>2
    <3>2. QED
      BY <1>0, <3>1, Multiples
  <2>4. n * PollInterval <= clock' - (deadline - Timeout)
    BY <1>0, <2>1, <2>2, <2>3
  <2>5. QED
    BY <2>1, <2>4 DEF SpacingInv, PollsBounded
<1>11. CASE Tick
  <2>1. pc \in {"calling", "getting"} /\ clock' = clock + 1 /\ UNCHANGED <<pc, deadline, gets>>
    BY <1>11 DEF Tick
  <2>2. pc = "getting" => n * PollInterval <= clock' - (deadline - Timeout)
    BY <1>0, <1>m, <2>1 DEF SpacingInv
  <2>3. QED
    BY <2>1, <2>2 DEF SpacingInv, PollsBounded
<1>12. CASE (\E m \in DOMAIN messages : Work(m)) \/ UNCHANGED vars
  BY <1>12 DEF Work, vars, locals, SpacingInv, PollsBounded
<1>13. QED
  BY <1>1, <1>2, <1>3, <1>4, <1>5, <1>6, <1>7, <1>8, <1>9, <1>10, <1>11, <1>12 DEF Next, Adapter

-----------------------------------------------------------------------------
(* The inductive invariant, and what it gives.                             *)
Inv == TypeOK /\ IInv /\ AnswerIsItsOwn /\ RetryBudget /\ PollsBounded

(* Everything invoke knows of its question holds at every step of it,      *)
(* whatever the service does to this message and the others                *)
(* (direct_genie.py:100-273).                                              *)
THEOREM Inductive == Spec => []Inv
<1>1. Init => Inv
  BY InitType, InitLedger, InitAnswers, InitRetry, InitSpacing DEF Inv, IInv
<1>2. Inv /\ [Next]_vars => Inv'
  <2> SUFFICES ASSUME Inv, [Next]_vars PROVE Inv'
    OBVIOUS
  <2>1. TypeOK'
    BY StepType DEF Inv, IInv
  <2>2. QED
    BY <2>1, StepLedger, StepAnswers, StepRetry, StepSpacing DEF Inv, IInv
<1>3. QED
  BY <1>1, <1>2, PTL DEF Spec

(* The locals of invoke, its rows and the service's messages keep their    *)
(* types: transient_failures never passes the limit by more than one.      *)
THEOREM TypesHold == Spec => []TypeOK
<1>1. Inv => TypeOK
  BY DEF Inv
<1>2. QED
  BY <1>1, Inductive, PTL

(* A row names its own question's message or none, in the conversation the *)
(* runner asked to reuse if any, and is COMPLETED only if that message is  *)
(* (direct_genie.py:151, 185-206).                                         *)
THEOREM AnswersAreOwn == Spec => []AnswerIsItsOwn
<1>1. Inv => AnswerIsItsOwn
  BY DEF Inv
<1>2. QED
  BY <1>1, Inductive, PTL

(* The adapter gives up on transient failures after exactly                *)
(* max_transient_retries and one in a row (direct_genie.py:226-239).       *)
THEOREM RetriesExact == Spec => []RetryBudget
<1>1. Inv => RetryBudget
  BY DEF Inv
<1>2. QED
  BY <1>1, Inductive, PTL

(* A request polls no more often than whole intervals fit its timeout, and *)
(* once, however long each call takes (direct_genie.py:221-249).           *)
THEOREM PollsSpaced == Spec => []PollsBounded
<1>1. Inv => PollsBounded
  BY DEF Inv
<1>2. QED
  BY <1>1, Inductive, PTL

-----------------------------------------------------------------------------
(* The contract of adapters/base.py: each step of invoke is a step of the  *)
(* abstract adapter or leaves what the contract sees alone.                *)
Asked   == Len(posted)
Posts   == IF posted = <<>> THEN 0 ELSE posted[Here].sent
Answers == [i \in DOMAIN rows |-> rows[i].status]

LEMMA ContractInit == Init => Contract!Init
BY DEF Init, Contract!Init

LEMMA AnswersGrow ==
  ASSUME TypeOK, RowReturned, TypeOK'
  PROVE  Answers' = Append(Answers, rows'[Len(rows) + 1].status)
<1> DEFINE new == rows'[Len(rows) + 1].status
<1>0. /\ rows \in Seq(RowType) /\ rows' \in Seq(RowType) /\ Len(rows) \in Nat
      /\ Len(rows') = Len(rows) + 1
      /\ \A i \in 1..Len(rows) : rows'[i] = rows[i]
  BY DEF TypeOK, RowReturned
<1>1. Answers = [i \in 1..Len(rows) |-> rows[i].status]
  BY <1>0 DEF Answers
<1>2. Answers' = [i \in 1..(Len(rows) + 1) |-> rows'[i].status]
  BY <1>0 DEF Answers
<1>3. Answers \in Seq({rows[i].status : i \in 1..Len(rows)}) /\ Len(Answers) = Len(rows)
  BY <1>0, <1>1
<1>4. Append(Answers, new) = [i \in 1..(Len(rows) + 1) |->
                                IF i = Len(rows) + 1 THEN new ELSE Answers[i]]
  BY <1>0, <1>3
<1>5. QED
  BY <1>0, <1>1, <1>2, <1>4

LEMMA ContractStep ==
  Inv /\ Inv' /\ [Next]_vars => [Contract!Next]_(Contract!contract)
<1> SUFFICES ASSUME Inv, Inv', [Next]_vars
             PROVE  Contract!Next \/ UNCHANGED Contract!contract
  OBVIOUS
<1>0. /\ TypeOK /\ LedgerInv /\ TypeOK' /\ LedgerInv'
      /\ rows \in Seq(RowType) /\ posted \in Seq(PostType) /\ Len(rows) \in Nat
      /\ Len(posted) \in Nat
  <2>1. TypeOK /\ LedgerInv /\ TypeOK' /\ LedgerInv'
    BY DEF Inv, IInv
  <2>2. rows \in Seq(RowType) /\ posted \in Seq(PostType)
    BY <2>1 DEF TypeOK
  <2>3. QED
    BY <2>1, <2>2
<1>n. Len(Answers) = Len(rows)
  <2>1. Answers = [i \in 1..Len(rows) |-> rows[i].status]
    BY <1>0 DEF Answers
  <2>2. Answers \in Seq({rows[i].status : i \in 1..Len(rows)})
    BY <1>0, <2>1
  <2>3. QED
    BY <1>0, <2>1, <2>2
(* The three steps the contract sees, and a step it does not see. *)
<1>a. ASSUME Len(posted) = Len(rows), Asked' = Asked + 1, Posts' = 0, Answers' = Answers
      PROVE  Contract!Next
  BY <1>a, <1>n DEF Contract!Next, Contract!Ask, Contract!Busy, Asked, Posts, Answers
<1>b. ASSUME pc # "idle", Posts = 0, Posts' = 1, Asked' = Asked, Answers' = Answers
      PROVE  Contract!Next
  <2>1. Asked = Len(Answers) + 1
    BY <1>0, <1>b, <1>n, OpenQuestion DEF Asked
  <2>2. QED
    BY <1>b, <2>1 DEF Contract!Next, Contract!Post, Contract!Busy, Asked, Posts, Answers
<1>c. ASSUME RowReturned PROVE Contract!Next
  <2> DEFINE st == rows'[Len(rows) + 1].status
  <2>1. Answers' = Append(Answers, st)
    BY <1>0, <1>c, AnswersGrow
  <2>2. st \in Contract!AnswerStatus
    <3>1. rows'[Len(rows) + 1] \in RowType
      BY <1>0, <1>c DEF RowReturned, TypeOK
    <3>2. QED
      BY <3>1 DEF RowType, Contract!AnswerStatus
  <2>3. Asked = Len(Answers) + 1 /\ Asked' = Asked /\ Posts' = Posts
    BY <1>0, <1>c, <1>n, OpenQuestion DEF RowReturned, Asked, Posts, Here
  <2> HIDE DEF st
  <2>4. \E status \in Contract!AnswerStatus : Answers' = Append(Answers, status)
    BY <2>1, <2>2
  <2>5. PICK status \in Contract!AnswerStatus : Answers' = Append(Answers, status)
    BY <2>4
  <2>6. Contract!Return(status)
    BY <2>3, <2>5 DEF Contract!Return, Contract!Busy, Asked, Posts, Answers
  <2>7. QED
    BY <2>6 DEF Contract!Next
<1>d. ASSUME Asked' = Asked, Posts' = Posts, Answers' = Answers
      PROVE  UNCHANGED Contract!contract
  BY <1>d DEF Contract!contract, Asked, Posts, Answers
<1>e. ASSUME UNCHANGED <<posted, rows>> PROVE UNCHANGED Contract!contract
  BY <1>d, <1>e DEF Asked, Posts, Answers, Here
(* The open entry changes, but not in what was sent. *)
<1>f. ASSUME pc # "idle", UNCHANGED rows, NEW v \in PostType,
             posted' = [posted EXCEPT ![Here] = v]
      PROVE  Asked' = Asked /\ Posts = posted[Here].sent /\ Posts' = v.sent /\ Answers' = Answers
  <2>1. posted # <<>>
    BY <1>0, <1>f, OpenQuestion
  <2>2. Len(posted') = Len(posted) /\ posted' # <<>> /\ posted'[Here] = v
    BY <1>0, <1>f, <2>1, PostedUpdate
  <2>3. QED
    BY <1>f, <2>1, <2>2 DEF Asked, Posts, Answers, Here
<1>1. CASE Invoke
  <2>1. pc = "idle" /\ UNCHANGED rows
        /\ \E c : posted' = Append(posted, [sent |-> 0, reuse |-> c, message |-> None,
                                            told |-> FALSE])
    BY <1>1 DEF Invoke
  <2>2. Len(posted') = Len(posted) + 1 /\ posted' # <<>> /\ posted'[Len(posted')].sent = 0
    <3>1. PICK c : posted' = Append(posted, [sent |-> 0, reuse |-> c, message |-> None,
                                             told |-> FALSE])
      BY <2>1
    <3>2. Len(posted') = Len(posted) + 1 /\ posted' # <<>>
      BY <1>0, <3>1
    <3>3. posted'[Len(posted) + 1] = [sent |-> 0, reuse |-> c, message |-> None, told |-> FALSE]
      BY <1>0, <3>1
    <3>4. QED
      BY <3>2, <3>3
  <2>3. Len(posted) = Len(rows)
    BY <1>0, <2>1 DEF LedgerInv
  <2>4. QED
    BY <1>a, <2>1, <2>2, <2>3 DEF Asked, Posts, Answers, Here
<1>2. CASE Post
  <2> DEFINE v == [posted[Here] EXCEPT !.sent = posted[Here].sent + 1]
  <2>1. pc = "post" /\ UNCHANGED rows /\ posted' = [posted EXCEPT ![Here] = v]
    BY <1>2 DEF Post
  <2>2. posted[Here] \in PostType /\ posted[Here].sent = 0
    BY <1>0, <2>1, OpenQuestion DEF LedgerInv
  <2>3. v \in PostType /\ v.sent = 1
    BY <2>2 DEF PostType
  <2> HIDE DEF v
  <2>4. QED
    BY <1>b, <1>f, <2>1, <2>2, <2>3
<1>3. CASE InitialReturns
  <2> DEFINE v == [posted[Here] EXCEPT !.told = TRUE]
  <2>1. pc = "calling" /\ UNCHANGED rows /\ posted' = [posted EXCEPT ![Here] = v]
    BY <1>3 DEF InitialReturns
  <2>2. posted[Here] \in PostType
    BY <1>0, <2>1, OpenQuestion
  <2>3. v \in PostType /\ v.sent = posted[Here].sent
    BY <2>2 DEF PostType
  <2> HIDE DEF v
  <2>4. QED
    BY <1>d, <1>f, <2>1, <2>3
<1>4. CASE Accept
  <2> DEFINE v == [posted[Here] EXCEPT !.message = Len(messages) + 1]
  <2>1. pc = "calling" /\ UNCHANGED rows /\ posted' = [posted EXCEPT ![Here] = v]
    BY <1>4 DEF Accept
  <2>2. posted[Here] \in PostType
    BY <1>0, <2>1, OpenQuestion
  <2>3. v \in PostType /\ v.sent = posted[Here].sent
    <3>1. messages \in Seq(MessageType)
      BY <1>0 DEF TypeOK
    <3>2. Len(messages) + 1 \in Nat
      BY <3>1
    <3>3. QED
      BY <2>2, <3>2 DEF PostType
  <2> HIDE DEF v
  <2>4. QED
    BY <1>d, <1>f, <2>1, <2>3
<1>5. CASE InitialFails \/ TimedOut \/ Terminal \/ TransientFailure \/ GetRaises
  BY <1>0, <1>5, <1>c, <1>e, ReturnStep, TransientStep
<1>6. CASE \/ GetMessage \/ KeepPolling \/ Sleep \/ Tick \/ UNCHANGED vars
           \/ \E m \in DOMAIN messages : Work(m)
  <2>1. UNCHANGED <<posted, rows>>
    BY <1>6 DEF GetMessage, KeepPolling, Sleep, Tick, Work, vars
  <2>2. QED
    BY <1>e, <2>1
<1>7. QED
  BY <1>1, <1>2, <1>3, <1>4, <1>5, <1>6 DEF Next, Adapter

(* The adapter does what the contract allows: one row per question, and    *)
(* the request that creates state sent once at most, whatever fails        *)
(* (adapters/base.py:38-56, direct_genie.py:100-206). That each question   *)
(* gets its row is liveness, and checked by TLC.                           *)
THEOREM ContractKept == Spec => Contract!Safety
<1>1. QED
  BY ContractInit, ContractStep, Inductive, PTL DEF Spec, Contract!Safety
==============================================================================
