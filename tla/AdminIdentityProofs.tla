------------------------- MODULE AdminIdentityProofs --------------------------
(***************************************************************************)
(* Proof about the admin server and the identity, for every set of keys    *)
(* and of calls.                                                           *)
(***************************************************************************)
EXTENDS AdminIdentity, TLAPS

\* What an invocation may ask for, and where its handler may be.
Requested == {"set_identity", "set_identity_from_bytes", "get_identity"}
Inside == Requested \cup {"update", "write"}

AdminTypes ==
    /\ call \in [Calls -> [asks : Requested \cup {"nothing", "over"}, told : Keys \cup {NoKey}]]
    /\ step \in [Calls -> Inside \cup {"none", "done"}]
    /\ key \in [Calls -> Keys \cup {NoKey}]
    /\ busy \subseteq Calls
    /\ file \in Keys \cup {NoKey}
    /\ identity \in Keys \cup {NoKey} /\ handed \in Keys \cup {NoKey}

\* The thread is inside one handler at most, and inside those that have begun
\* and not returned.  The identity is the key handed to the scheduler except
\* between the two assignments of set_identity, where the handler still has
\* the key that was handed.
AdminInv ==
    /\ AdminTypes
    /\ \A c, d \in busy : c = d
    /\ \A c \in Calls : step[c] \in Inside <=> c \in busy
    /\ \A c \in Calls : call[c].asks = "nothing" => step[c] = "none"
    /\ \A c \in Calls : step[c] = "write" => handed = key[c]
    /\ (\A c \in Calls : step[c] # "write") => identity = handed

\* What is told to a caller leaves the types as they are.
LEMMA ReplyTypes ==
    ASSUME AdminInv, NEW c \in Calls, NEW told \in Keys \cup {NoKey}, Reply(c, told)
    PROVE  /\ call' \in [Calls -> [asks : Requested \cup {"nothing", "over"},
                                   told : Keys \cup {NoKey}]]
           /\ \A d \in Calls : call'[d].asks = "nothing" => d # c /\ call[d].asks = "nothing"
           /\ step' = [step EXCEPT ![c] = "done"]
           /\ busy' = busy \ {c}
<1> DEFINE record == [asks |-> "over", told |-> told]
<1>1. (call' = call /\ call[c].asks = "over") \/ call' = [call EXCEPT ![c] = record]
  BY DEF Reply
<1>2. record \in [asks : Requested \cup {"nothing", "over"}, told : Keys \cup {NoKey}]
  OBVIOUS
<1> HIDE DEF record
<1>3. call' \in [Calls -> [asks : Requested \cup {"nothing", "over"}, told : Keys \cup {NoKey}]]
  BY <1>1, <1>2 DEF AdminInv, AdminTypes
<1>4. \A d \in Calls : call'[d].asks = "nothing" => d # c /\ call[d].asks = "nothing"
  BY <1>1 DEF AdminInv, AdminTypes, record
<1> QED  BY <1>3, <1>4 DEF Reply, Goto

\* For every set of keys and every number of calls that cross, and whenever
\* the file, the scheduler or the token change, the identity reported between
\* handlers is the one the scheduler was handed last.
THEOREM AgreementCorrect == Spec => []Agreement
<1>1. Init => AdminInv
  BY DEF Init, AdminInv, AdminTypes, Requested, Inside
<1>2. AdminInv /\ [Next]_vars => AdminInv'
  <2> SUFFICES ASSUME AdminInv, [Next]_vars PROVE AdminInv'
    OBVIOUS
  <2> DEFINE Records == [asks : Requested \cup {"nothing", "over"}, told : Keys \cup {NoKey}]
  <2>1. ASSUME NEW c \in Calls, NEW what \in Requested \cup {"over"},
               Asks(c, what), call[c].asks # "nothing" \/ step[c] = "none"
        PROVE  /\ call' \in [Calls -> Records]
               /\ \A d \in Calls : call'[d].asks = "nothing" => call[d].asks = "nothing"
    <3>1. call' = [call EXCEPT ![c] = [call[c] EXCEPT !.asks = what]]
      BY <2>1 DEF Asks
    <3>2. call[c] \in Records /\ what \in Requested \cup {"nothing", "over"} /\ what # "nothing"
      BY <2>1 DEF AdminInv, AdminTypes, Requested
    <3>3. [call[c] EXCEPT !.asks = what] \in Records /\ [call[c] EXCEPT !.asks = what].asks = what
      BY <3>2
    <3> QED  BY <3>1, <3>2, <3>3 DEF AdminInv, AdminTypes
  <2>2. ASSUME NEW c \in Calls, Invoke(c) PROVE AdminInv'
    <3>1. PICK what \in Requested : Asks(c, what)
      BY <2>2 DEF Invoke, Requested
    <3>2. /\ call' \in [Calls -> Records]
          /\ \A d \in Calls : call'[d].asks = "nothing" => call[d].asks = "nothing"
      BY <2>1, <2>2, <3>1 DEF Invoke, AdminInv
    <3>3. key' \in [Calls -> Keys \cup {NoKey}] /\ \A d \in Calls : d # c => key'[d] = key[d]
      BY <2>2 DEF Invoke, AdminInv, AdminTypes
    <3>4. step[c] = "none"
      BY <2>2 DEF Invoke, AdminInv
    <3>5. UNCHANGED <<file, busy, step, identity, handed>>
      BY <2>2 DEF Invoke
    <3>6. AdminTypes'
      BY <3>2, <3>3, <3>5 DEF AdminInv, AdminTypes
    <3> QED  BY <3>2, <3>3, <3>4, <3>5, <3>6 DEF AdminInv
  <2>3. ASSUME NEW c \in Calls, NoAnswer(c) PROVE AdminInv'
    <3>1. /\ call' \in [Calls -> Records]
          /\ \A d \in Calls : call'[d].asks = "nothing" => call[d].asks = "nothing"
      BY <2>1, <2>3 DEF NoAnswer
    <3>2. UNCHANGED <<file, busy, step, key, identity, handed>>
      BY <2>3 DEF NoAnswer, handlerVars
    <3> QED  BY <3>1, <3>2 DEF AdminInv, AdminTypes
  <2>4. ASSUME NEW c \in Calls, Begin(c) PROVE AdminInv'
    <3>1. /\ busy = {} /\ busy' = {c} /\ step' = [step EXCEPT ![c] = call[c].asks]
          /\ call[c].asks \in Requested
          /\ UNCHANGED <<file, call, key, identity, handed>>
      BY <2>4 DEF Begin, Goto, AdminInv, AdminTypes
    <3>2. AdminTypes'
      BY <3>1 DEF AdminInv, AdminTypes, Inside
    <3>3. \A d \in Calls : step'[d] = IF d = c THEN call[c].asks ELSE step[d]
      BY <3>1 DEF AdminInv, AdminTypes
    <3>4. call[c].asks # "write" /\ call[c].asks # "nothing" /\ call[c].asks \in Inside
      BY <3>1 DEF Requested, Inside
    <3>5. \A d \in Calls : step[d] # "write"
      BY <3>1 DEF AdminInv, Inside
    <3> QED  BY <3>1, <3>2, <3>3, <3>4, <3>5 DEF AdminInv
  <2>5. ASSUME NEW c \in Calls, NEW told \in Keys \cup {NoKey}, step[c] \in Inside,
               Reply(c, told), UNCHANGED <<file, handed>>,
               key' \in [Calls -> Keys \cup {NoKey}],
               \A d \in Calls : d # c => key'[d] = key[d],
               identity' = IF step[c] = "write" THEN key[c] ELSE identity
        PROVE  AdminInv'
    <3>1. /\ call' \in [Calls -> Records]
          /\ \A d \in Calls : call'[d].asks = "nothing" => d # c /\ call[d].asks = "nothing"
          /\ step' = [step EXCEPT ![c] = "done"]
          /\ busy' = busy \ {c}
      BY <2>5, ReplyTypes
    <3>2. busy = {c}
      BY <2>5 DEF AdminInv
    <3>3. \A d \in Calls : step'[d] = IF d = c THEN "done" ELSE step[d]
      BY <3>1 DEF AdminInv, AdminTypes
    <3>4. identity' = handed'
      <4>1. \A d \in Calls : d # c => step[d] # "write"
        BY <3>2 DEF AdminInv, Inside
      <4>2. CASE step[c] = "write"
        BY <2>5, <4>2 DEF AdminInv
      <4>3. CASE step[c] # "write"
        BY <2>5, <4>1, <4>3 DEF AdminInv
      <4> QED  BY <4>2, <4>3
    <3>5. AdminTypes'
      BY <2>5, <3>1, <3>4 DEF AdminInv, AdminTypes
    <3>6. "done" \notin Inside /\ "done" # "write"
      BY DEF Inside, Requested
    <3> QED  BY <2>5, <3>1, <3>2, <3>3, <3>4, <3>5, <3>6 DEF AdminInv
  <2>6. ASSUME NEW c \in Calls, NEW label \in {"update", "write"}, step[c] \in Inside,
               step[c] # "write", Goto(c, label), UNCHANGED <<file, call, busy, identity>>,
               key' \in [Calls -> Keys \cup {NoKey}],
               \A d \in Calls : d # c => key'[d] = key[d],
               handed' = IF label = "write" THEN key'[c] ELSE handed
        PROVE  AdminInv'
    <3>1. busy = {c}
      BY <2>6 DEF AdminInv
    <3>2. \A d \in Calls : step'[d] = IF d = c THEN label ELSE step[d]
      BY <2>6 DEF Goto, AdminInv, AdminTypes
    <3>3. \A d \in Calls : step[d] # "write"
      BY <2>6, <3>1 DEF AdminInv, Inside
    <3>4. AdminTypes'
      BY <2>6 DEF AdminInv, AdminTypes, Goto, Inside
    <3>5. call[c].asks # "nothing" /\ label \in Inside
      BY <2>6 DEF AdminInv, Inside, Requested
    <3> QED  BY <2>6, <3>1, <3>2, <3>3, <3>4, <3>5 DEF AdminInv
  <2>7. ASSUME NEW c \in Calls, ReadKey(c) PROVE AdminInv'
    <3>1. /\ step[c] \in Inside /\ step[c] # "write"
          /\ key' \in [Calls -> Keys \cup {NoKey}]
          /\ \A d \in Calls : d # c => key'[d] = key[d]
          /\ UNCHANGED <<file, identity, handed>>
      BY <2>7 DEF ReadKey, AdminInv, AdminTypes, Inside, Requested
    <3>2. CASE Reply(c, NoKey)
      BY <2>5, <3>1, <3>2
    <3>3. CASE Goto(c, "update") /\ UNCHANGED <<call, busy>>
      BY <2>6, <3>1, <3>3
    <3> QED  BY <2>7, <3>2, <3>3 DEF ReadKey
  <2>8. ASSUME NEW c \in Calls, update_identity(c) PROVE AdminInv'
    <3>1. /\ step[c] \in Inside /\ step[c] # "write"
          /\ key' \in [Calls -> Keys \cup {NoKey}] /\ key' = key
          /\ UNCHANGED <<file, identity>>
      BY <2>8 DEF update_identity, AdminInv, AdminTypes, Inside
    <3>2. CASE Reply(c, NoKey) /\ UNCHANGED handed
      BY <2>5, <3>1, <3>2
    <3>3. CASE handed' = key[c] /\ Goto(c, "write") /\ UNCHANGED <<call, busy>>
      BY <2>6, <3>1, <3>3
    <3> QED  BY <2>8, <3>2, <3>3 DEF update_identity
  <2>9. ASSUME NEW c \in Calls, WriteIdentity(c) PROVE AdminInv'
    <3>1. step[c] \in Inside /\ key[c] \in Keys \cup {NoKey} /\ key \in [Calls -> Keys \cup {NoKey}]
      BY <2>9 DEF WriteIdentity, AdminInv, AdminTypes, Inside
    <3> QED  BY <2>5, <2>9, <3>1 DEF WriteIdentity
  <2>10. ASSUME NEW c \in Calls, get_identity(c) PROVE AdminInv'
    <3>1. /\ step[c] \in Inside /\ step[c] # "write" /\ identity \in Keys \cup {NoKey}
          /\ key \in [Calls -> Keys \cup {NoKey}]
      BY <2>10 DEF get_identity, AdminInv, AdminTypes, Inside, Requested
    <3> QED  BY <2>5, <2>10, <3>1 DEF get_identity
  <2>11. CASE Bind \/ ServerStops \/ Adopt \/ SchedulerExit \/ Cancel
    BY <2>11 DEF Bind, ServerStops, Adopt, SchedulerExit, Cancel, handlerVars,
                 AdminInv, AdminTypes
  <2>12. ASSUME NEW k \in Keys \cup {NoKey}, ChangeFile(k) PROVE AdminInv'
    BY <2>12 DEF ChangeFile, handlerVars, AdminInv, AdminTypes
  <2>13. CASE UNCHANGED vars
    BY <2>13 DEF vars, handlerVars, AdminInv, AdminTypes
  <2> QED
    BY <2>2, <2>3, <2>4, <2>7, <2>8, <2>9, <2>10, <2>11, <2>12, <2>13 DEF Next, Handler
<1>3. AdminInv => Agreement
  BY DEF AdminInv, Agreement, Inside
<1> QED  BY <1>1, <1>2, <1>3, PTL DEF Spec
===============================================================================
