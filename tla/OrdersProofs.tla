------------------------------ MODULE OrdersProofs ------------------------------
(***************************************************************************)
(* Proofs about overlapping orders, for any descriptors and ids: first     *)
(* about the client manager (IndexRebuild, invariant IInv), then about the *)
(* filter table (FilterTable, invariant FInv).                             *)
(***************************************************************************)
EXTENDS FilterTable, TLAPS

(* Only a walk has entries to visit and pairs to insert, and who is outside *)
(* the manager meets nobody.                                                *)
AtRest ==
  \A t \in Fds : /\ at[t] # "visit" => todo[t] = {} /\ hold[t] = {}
                 /\ at[t] = "idle" => ~met[t]

(* A thread that has met nobody is alone in the manager. *)
Alone ==
  \A t, u \in Fds : at[t] # "idle" /\ ~met[t] /\ u # t => at[u] = "idle"

(* Every subscription is in the reverse index, or some walk will insert it, *)
(* unless some order has still to clear: then its own walk will.            *)
Covered ==
  (\A t \in Fds : at[t] # "clear") =>
    \A fd \in DOMAIN fwd : \A i \in fwd[fd] :
      \/ <<i, fd>> \in rev
      \/ \E t \in Fds : at[t] = "visit" /\ (<<i, fd>> \in hold[t] \/ fd \in todo[t])

(* What is in the reverse index during a walk that has met nobody, together *)
(* with what the walk will insert, is what the index says.                  *)
Walk ==
  \A t \in Fds : at[t] = "visit" /\ ~met[t] =>
    /\ gone = {}
    /\ \A i \in Id, fd \in Fds :
         (<<i, fd>> \in rev \/ <<i, fd>> \in hold[t] \/ (fd \in todo[t] /\ i \in fwd[fd]))
           <=> fd \in DOMAIN fwd /\ i \in fwd[fd]

(* The reverse index after an order that met nobody. *)
Repaired ==
  whole /\ (\A t \in Fds : at[t] = "idle") =>
    \A i \in Id, fd \in Fds \ gone :
      <<i, fd>> \in rev <=> fd \in DOMAIN fwd /\ i \in fwd[fd]

(* The inductive invariant. *)
IInv == TypeOK /\ AtRest /\ Alone /\ Covered /\ Walk /\ Repaired
--------------------------------------------------------------------------------
(* What the changes of the index make of it. *)
LEMMA IndexTypes ==
  ASSUME TypeOK, NEW t \in Fds, NEW ids \in SUBSET Id
  PROVE  /\ DOMAIN With(t, ids) = DOMAIN fwd \cup {t}
         /\ With(t, ids) \in [DOMAIN fwd \cup {t} -> SUBSET Id]
         /\ DOMAIN Without(t) = DOMAIN fwd \ {t}
         /\ Without(t) \in [DOMAIN fwd \ {t} -> SUBSET Id]
         /\ \A g \in DOMAIN fwd \ {t} : Without(t)[g] = fwd[g]
BY DEF TypeOK, With, Without

(* Thread t has entered and will clear: nothing is said of the reverse      *)
(* index, and whoever was inside has met it.                                *)
LEMMA EnterKeeps ==
  ASSUME IInv, NEW t \in Fds, Enter(t)
  PROVE  /\ at' \in [Fds -> {"idle", "clear", "visit"}] /\ met' \in [Fds -> BOOLEAN]
         /\ Alone' /\ Covered' /\ Repaired'
         /\ \A u \in Fds : at'[u] = "visit" => at[u] = "visit" /\ met'[u]
         /\ \A u \in Fds : at'[u] # "visit" => at[u] # "visit"
         /\ \A u \in Fds : at'[u] = "idle" => ~met'[u]
<1>1. /\ at[t] = "idle"
      /\ at' = [at EXCEPT ![t] = "clear"]
      /\ met' = [u \in Fds |-> IF u = t THEN Others(t) # {} ELSE met[u] \/ u \in Others(t)]
  BY DEF Enter
<1>2. at \in [Fds -> {"idle", "clear", "visit"}] /\ met \in [Fds -> BOOLEAN]
  BY DEF IInv, TypeOK
<1>3. at'[t] = "clear" /\ \A u \in Fds \ {t} : at'[u] = at[u]
  BY <1>1, <1>2
<1>4. met'[t] = (Others(t) # {}) /\ \A u \in Fds \ {t} : met'[u] = (met[u] \/ u \in Others(t))
  BY <1>1
<1>5. at' \in [Fds -> {"idle", "clear", "visit"}]
  BY <1>1, <1>2
<1>6. met' \in [Fds -> BOOLEAN]
  BY <1>1, <1>2
<1>7. Alone'
  BY <1>3, <1>4 DEF IInv, Alone, Others
<1>8. Covered' /\ Repaired'
  BY <1>3 DEF Covered, Repaired
<1>9. \A u \in Fds : at'[u] = "visit" => at[u] = "visit" /\ met'[u]
  BY <1>3, <1>4 DEF Others
<1>10. \A u \in Fds : at'[u] # "visit" => at[u] # "visit"
  BY <1>1, <1>3
<1>11. \A u \in Fds : at'[u] = "idle" => ~met'[u]
  BY <1>3, <1>4 DEF IInv, AtRest, Others
<1>12. QED
  BY <1>5, <1>6, <1>7, <1>8, <1>9, <1>10, <1>11

LEMMA RegisterKeeps ==
  ASSUME IInv, NEW t \in Fds, NEW ids \in SUBSET Id, Register(t, ids)
  PROVE  IInv'
<1> DEFINE all == ids \cup (IF t \in DOMAIN fwd THEN fwd[t] ELSE {})
<1>1. all \in SUBSET Id /\ fwd' = With(t, all) /\ Enter(t)
  BY DEF Register, IInv, TypeOK
<1>2. PICK seen \in SUBSET {u \in Others(t) : t \notin DOMAIN fwd /\ at[u] = "visit"} :
        todo' = [u \in Fds |-> IF u \in seen THEN todo[u] \cup {t} ELSE todo[u]]
  BY DEF Register
<1>3. rev' = rev /\ hold' = hold /\ whole' = whole /\ gone' = gone
  BY DEF Register
<1>4. DOMAIN fwd' = DOMAIN fwd \cup {t} /\ fwd' \in [DOMAIN fwd' -> SUBSET Id]
  BY <1>1, IndexTypes DEF IInv
<1>5. todo' \in [Fds -> SUBSET DOMAIN fwd']
  BY <1>2, <1>4 DEF IInv, TypeOK
<1>6. TypeOK'
  BY <1>1, <1>3, <1>4, <1>5, EnterKeeps DEF IInv, TypeOK
<1>7. AtRest'
  <2> SUFFICES ASSUME NEW u \in Fds
               PROVE  /\ at'[u] # "visit" => todo'[u] = {} /\ hold'[u] = {}
                      /\ at'[u] = "idle" => ~met'[u]
    BY DEF AtRest
  <2>1. at'[u] # "visit" => at[u] # "visit" /\ todo'[u] = todo[u]
    BY <1>1, <1>2, EnterKeeps
  <2>2. QED
    BY <1>1, <1>3, <2>1, EnterKeeps DEF IInv, AtRest
<1>8. Walk'
  BY <1>1, EnterKeeps DEF Walk
<1>9. QED
  BY <1>1, <1>6, <1>7, <1>8, EnterKeeps DEF IInv

LEMMA EraseTypes ==
  ASSUME IInv, NEW t \in Fds, Erase(t)
  PROVE  /\ DOMAIN fwd' = DOMAIN fwd \ {t} /\ fwd' \in [DOMAIN fwd' -> SUBSET Id]
         /\ \A g \in DOMAIN fwd' : fwd'[g] = fwd[g]
         /\ todo' \in [Fds -> SUBSET DOMAIN fwd']
         /\ \A u \in Fds : todo'[u] = todo[u] \ {t}
<1>1. fwd' = Without(t) /\ todo' = [u \in Fds |-> todo[u] \ {t}]
  BY DEF Erase
<1>2. DOMAIN fwd' = DOMAIN fwd \ {t} /\ fwd' \in [DOMAIN fwd' -> SUBSET Id]
  BY <1>1, IndexTypes DEF IInv
<1>3. \A g \in DOMAIN fwd' : fwd'[g] = fwd[g]
  BY <1>1, <1>2 DEF Without
<1>4. todo' \in [Fds -> SUBSET DOMAIN fwd']
  BY <1>1, <1>2 DEF IInv, TypeOK
<1>5. QED
  BY <1>1, <1>2, <1>3, <1>4

LEMMA DeregisterKeeps ==
  ASSUME IInv, NEW t \in Fds, NEW ids \in SUBSET Id, Deregister(t, ids)
  PROVE  IInv'
<1>1. /\ t \in DOMAIN fwd /\ Enter(t)
      /\ \/ Erase(t)
         \/ fwd' = With(t, fwd[t] \ ids) /\ todo' = todo
      /\ rev' = rev /\ hold' = hold /\ whole' = whole /\ gone' = gone
  BY DEF Deregister
<1>2. /\ DOMAIN fwd' \subseteq Fds /\ fwd' \in [DOMAIN fwd' -> SUBSET Id]
      /\ todo' \in [Fds -> SUBSET DOMAIN fwd']
      /\ \A u \in Fds : todo'[u] \subseteq todo[u]
  <2>1. CASE Erase(t)
    BY <2>1, EraseTypes DEF IInv, TypeOK
  <2>2. CASE fwd' = With(t, fwd[t] \ ids) /\ todo' = todo
    <3>1. fwd[t] \ ids \in SUBSET Id
      BY <1>1 DEF IInv, TypeOK
    <3>2. DOMAIN fwd' = DOMAIN fwd \cup {t} /\ fwd' \in [DOMAIN fwd' -> SUBSET Id]
      BY <2>2, <3>1, IndexTypes DEF IInv
    <3>3. QED
      BY <1>1, <2>2, <3>2 DEF IInv, TypeOK
  <2>3. QED
    BY <1>1, <2>1, <2>2
<1>3. TypeOK'
  BY <1>1, <1>2, EnterKeeps DEF IInv, TypeOK
<1>4. AtRest'
  BY <1>1, <1>2, EnterKeeps DEF IInv, AtRest
<1>5. Walk'
  BY <1>1, EnterKeeps DEF Walk
<1>6. QED
  BY <1>1, <1>3, <1>4, <1>5, EnterKeeps DEF IInv

LEMMA DisconnectKeeps ==
  ASSUME IInv, NEW t \in Fds, Disconnect(t)
  PROVE  IInv'
<1>1. /\ at[t] = "idle" /\ t \in DOMAIN fwd /\ Erase(t)
      /\ gone' = gone \cup {t}
      /\ met' = [u \in Fds |-> met[u] \/ u \in Others(t)]
      /\ rev' = rev /\ at' = at /\ hold' = hold /\ whole' = whole
  BY DEF Disconnect
<1>2. /\ DOMAIN fwd' = DOMAIN fwd \ {t} /\ fwd' \in [DOMAIN fwd' -> SUBSET Id]
      /\ \A g \in DOMAIN fwd' : fwd'[g] = fwd[g]
      /\ todo' \in [Fds -> SUBSET DOMAIN fwd']
      /\ \A u \in Fds : todo'[u] = todo[u] \ {t}
  BY <1>1, EraseTypes
<1>3. \A u \in Fds : met'[u] = (met[u] \/ u \in Others(t))
  BY <1>1
<1>4. met' \in [Fds -> BOOLEAN]
  BY <1>1 DEF IInv, TypeOK
<1>5. TypeOK'
  BY <1>1, <1>2, <1>4 DEF IInv, TypeOK
<1>6. AtRest'
  BY <1>1, <1>2, <1>3 DEF IInv, AtRest, Others
<1>7. Alone'
  BY <1>1, <1>3 DEF IInv, Alone
<1>8. Covered'
  BY <1>1, <1>2 DEF IInv, Covered
<1>9. Walk'
  BY <1>1, <1>3 DEF Walk, Others
<1>10. Repaired'
  BY <1>1, <1>2 DEF IInv, Repaired
<1>11. QED
  BY <1>5, <1>6, <1>7, <1>8, <1>9, <1>10 DEF IInv

LEMMA ClearKeeps ==
  ASSUME IInv, NEW t \in Fds, Clear(t)
  PROVE  IInv'
<1>1. /\ at[t] = "clear" /\ at' = [at EXCEPT ![t] = "visit"]
      /\ rev' = {} /\ gone' = {} /\ todo' = [todo EXCEPT ![t] = DOMAIN fwd]
      /\ fwd' = fwd /\ hold' = hold /\ met' = met /\ whole' = whole
  BY DEF Clear
<1>2. /\ at'[t] = "visit" /\ todo'[t] = DOMAIN fwd
      /\ \A u \in Fds \ {t} : at'[u] = at[u] /\ todo'[u] = todo[u]
  BY <1>1 DEF IInv, TypeOK
<1>3. TypeOK'
  BY <1>1 DEF IInv, TypeOK
<1>4. AtRest'
  BY <1>1, <1>2 DEF IInv, AtRest
<1>5. Alone'
  BY <1>1, <1>2 DEF IInv, Alone
<1>6. Covered'
  BY <1>1, <1>2 DEF Covered
<1>7. Walk'
  <2> SUFFICES ASSUME NEW u \in Fds, at'[u] = "visit", ~met'[u]
               PROVE  /\ gone' = {}
                      /\ \A i \in Id, fd \in Fds :
                           (<<i, fd>> \in rev' \/ <<i, fd>> \in hold'[u]
                            \/ (fd \in todo'[u] /\ i \in fwd'[fd]))
                             <=> fd \in DOMAIN fwd' /\ i \in fwd'[fd]
    BY DEF Walk
  <2>1. u = t
    BY <1>1, <1>2 DEF IInv, Alone
  <2>2. hold'[t] = {}
    BY <1>1 DEF IInv, AtRest
  <2>3. QED
    BY <1>1, <1>2, <2>1, <2>2
<1>8. Repaired'
  BY <1>2 DEF Repaired
<1>9. QED
  BY <1>3, <1>4, <1>5, <1>6, <1>7, <1>8 DEF IInv

LEMMA VisitKeeps ==
  ASSUME IInv, NEW t \in Fds, NEW fd \in Fds, Visit(t, fd)
  PROVE  IInv'
<1>1. /\ at[t] = "visit" /\ hold[t] = {} /\ fd \in todo[t] /\ fd \in DOMAIN fwd
      /\ todo' = [todo EXCEPT ![t] = @ \ {fd}]
      /\ hold' = [hold EXCEPT ![t] = fwd[fd] \X {fd}]
      /\ fwd' = fwd /\ rev' = rev /\ at' = at /\ met' = met /\ whole' = whole /\ gone' = gone
  BY DEF Visit, IInv, TypeOK
<1>2. /\ todo'[t] = todo[t] \ {fd} /\ hold'[t] = fwd[fd] \X {fd}
      /\ \A u \in Fds \ {t} : todo'[u] = todo[u] /\ hold'[u] = hold[u]
  BY <1>1 DEF IInv, TypeOK
<1>3. \A i \in Id, g \in Fds : <<i, g>> \in hold'[t] <=> g = fd /\ i \in fwd[fd]
  BY <1>2
<1>4. TypeOK'
  <2>1. fwd[fd] \X {fd} \in SUBSET (Id \X Fds)
    BY <1>1 DEF IInv, TypeOK
  <2>2. hold' \in [Fds -> SUBSET (Id \X Fds)] /\ todo' \in [Fds -> SUBSET DOMAIN fwd']
    BY <1>1, <2>1 DEF IInv, TypeOK
  <2>3. QED
    BY <1>1, <2>2 DEF IInv, TypeOK
<1>5. AtRest'
  BY <1>1, <1>2 DEF IInv, AtRest
<1>6. Alone'
  BY <1>1 DEF IInv, Alone
<1>7. Covered'
  <2> SUFFICES ASSUME \A u \in Fds : at[u] # "clear",
                      NEW g \in DOMAIN fwd, NEW i \in fwd[g], <<i, g>> \notin rev
               PROVE  \E u \in Fds :
                        at'[u] = "visit" /\ (<<i, g>> \in hold'[u] \/ g \in todo'[u])
    BY <1>1 DEF Covered
  <2>1. PICK u \in Fds : at[u] = "visit" /\ (<<i, g>> \in hold[u] \/ g \in todo[u])
    BY DEF IInv, Covered
  <2>2. i \in Id /\ g \in Fds
    BY DEF IInv, TypeOK
  <2>3. CASE u # t
    BY <1>1, <1>2, <2>1, <2>3
  <2>4. CASE u = t
    BY <1>1, <1>2, <1>3, <2>1, <2>2, <2>4
  <2>5. QED
    BY <2>3, <2>4
<1>8. Walk'
  <2> SUFFICES ASSUME NEW u \in Fds, at[u] = "visit", ~met[u]
               PROVE  /\ gone = {}
                      /\ \A i \in Id, g \in Fds :
                           (<<i, g>> \in rev \/ <<i, g>> \in hold'[u]
                            \/ (g \in todo'[u] /\ i \in fwd[g]))
                             <=> g \in DOMAIN fwd /\ i \in fwd[g]
    BY <1>1 DEF Walk
  <2>1. u = t
    BY <1>1 DEF IInv, Alone
  <2>2. /\ gone = {}
        /\ \A i \in Id, g \in Fds :
             (<<i, g>> \in rev \/ <<i, g>> \in hold[t] \/ (g \in todo[t] /\ i \in fwd[g]))
               <=> g \in DOMAIN fwd /\ i \in fwd[g]
    BY <2>1 DEF IInv, Walk
  <2>3. QED
    BY <1>1, <1>2, <1>3, <2>1, <2>2
<1>9. Repaired'
  BY <1>1 DEF Repaired
<1>10. QED
  BY <1>4, <1>5, <1>6, <1>7, <1>8, <1>9 DEF IInv

LEMMA InsertKeeps ==
  ASSUME IInv, NEW t \in Fds, NEW pair \in Id \X Fds, Insert(t, pair)
  PROVE  IInv'
<1>1. /\ pair \in hold[t] /\ rev' = rev \cup {pair}
      /\ hold' = [hold EXCEPT ![t] = @ \ {pair}]
      /\ fwd' = fwd /\ at' = at /\ todo' = todo /\ met' = met /\ whole' = whole /\ gone' = gone
  BY DEF Insert
<1>2. at[t] = "visit"
  BY <1>1 DEF IInv, AtRest
<1>3. hold'[t] = hold[t] \ {pair} /\ \A u \in Fds \ {t} : hold'[u] = hold[u]
  BY <1>1 DEF IInv, TypeOK
<1>4. TypeOK'
  BY <1>1 DEF IInv, TypeOK
<1>5. AtRest'
  BY <1>1, <1>2, <1>3 DEF IInv, AtRest
<1>6. Alone'
  BY <1>1 DEF IInv, Alone
<1>7. Covered'
  <2> SUFFICES ASSUME \A u \in Fds : at[u] # "clear",
                      NEW g \in DOMAIN fwd, NEW i \in fwd[g], <<i, g>> \notin rev'
               PROVE  \E u \in Fds :
                        at[u] = "visit" /\ (<<i, g>> \in hold'[u] \/ g \in todo[u])
    BY <1>1 DEF Covered
  <2>1. PICK u \in Fds : at[u] = "visit" /\ (<<i, g>> \in hold[u] \/ g \in todo[u])
    BY <1>1 DEF IInv, Covered
  <2>2. QED
    BY <1>1, <1>3, <2>1
<1>8. Walk'
  <2> SUFFICES ASSUME NEW u \in Fds, at[u] = "visit", ~met[u]
               PROVE  /\ gone = {}
                      /\ \A i \in Id, g \in Fds :
                           (<<i, g>> \in rev' \/ <<i, g>> \in hold'[u]
                            \/ (g \in todo[u] /\ i \in fwd[g]))
                             <=> g \in DOMAIN fwd /\ i \in fwd[g]
    BY <1>1 DEF Walk
  <2>1. u = t
    BY <1>2 DEF IInv, Alone
  <2>2. rev' \cup hold'[t] = rev \cup hold[t]
    BY <1>1, <1>3
  <2>3. QED
    BY <2>1, <2>2 DEF IInv, Walk
<1>9. Repaired'
  BY <1>1, <1>2 DEF Repaired
<1>10. QED
  BY <1>4, <1>5, <1>6, <1>7, <1>8, <1>9 DEF IInv

LEMMA FinishKeeps ==
  ASSUME IInv, NEW t \in Fds, Finish(t)
  PROVE  IInv'
<1>1. /\ at[t] = "visit" /\ hold[t] = {} /\ todo[t] = {}
      /\ at' = [at EXCEPT ![t] = "idle"]
      /\ whole' = (~met[t]) /\ met' = [met EXCEPT ![t] = FALSE]
      /\ fwd' = fwd /\ rev' = rev /\ todo' = todo /\ hold' = hold /\ gone' = gone
  BY DEF Finish
<1>2. /\ at'[t] = "idle" /\ met'[t] = FALSE
      /\ \A u \in Fds \ {t} : at'[u] = at[u] /\ met'[u] = met[u]
  BY <1>1 DEF IInv, TypeOK
<1>3. TypeOK'
  BY <1>1 DEF IInv, TypeOK
<1>4. AtRest'
  BY <1>1, <1>2 DEF IInv, AtRest
<1>5. Alone'
  BY <1>2 DEF IInv, Alone
<1>6. Covered'
  BY <1>1, <1>2 DEF IInv, Covered
<1>7. Walk'
  BY <1>1, <1>2 DEF IInv, Walk, Alone
<1>8. Repaired'
  BY <1>1 DEF IInv, Repaired, Walk
<1>9. QED
  BY <1>3, <1>4, <1>5, <1>6, <1>7, <1>8 DEF IInv

--------------------------------------------------------------------------------
LEMMA InitInv == ASSUME Init PROVE IInv
BY DEF Init, IInv, TypeOK, AtRest, Alone, Covered, Walk, Repaired

LEMMA NextInv == ASSUME IInv, [Next]_indexVars PROVE IInv'
<1>1. CASE UNCHANGED indexVars
  BY <1>1 DEF indexVars, IInv, TypeOK, AtRest, Alone, Covered, Walk, Repaired
<1>2. CASE Next
  <2>1. PICK t \in Fds :
          \/ \E ids \in SUBSET Id : Register(t, ids) \/ Deregister(t, ids)
          \/ Disconnect(t)
          \/ Clear(t)
          \/ \E fd \in Fds : Visit(t, fd)
          \/ \E pair \in Id \X Fds : Insert(t, pair)
          \/ Finish(t)
    BY <1>2 DEF Next
  <2>2. QED
    BY <2>1, RegisterKeeps, DeregisterKeeps, DisconnectKeeps, ClearKeeps, VisitKeeps,
       InsertKeeps, FinishKeeps
<1>3. QED
  BY <1>1, <1>2

(* The invariant holds in every state, however orders overlap. *)
THEOREM Invariant == Spec => []IInv
BY InitInv, NextInv, PTL DEF Spec

(* The maps and the walks over them keep their types: no walk has an erased *)
(* entry in front of it (client_manager_register, client_manager_deregister,*)
(* clean_socket_client_index).                                              *)
THEOREM TypeCorrect == Spec => []TypeOK
<1>1. IInv => TypeOK
  BY DEF IInv
<1>2. QED
  BY <1>1, Invariant, PTL

(* For any number of connections whose orders overlap, no subscription is   *)
(* missing from the reverse index once they have ended                      *)
(* (update_socket_client_reserve_index).                                    *)
THEOREM SubscriptionsSurviveOverlap == Spec => []NothingIsLost
<1>1. IInv => NothingIsLost
  <2> SUFFICES ASSUME IInv, \A t \in Fds : at[t] = "idle",
                      NEW fd \in DOMAIN fwd, NEW i \in fwd[fd]
               PROVE  <<i, fd>> \in rev
    BY DEF NothingIsLost
  <2>1. QED
    BY DEF IInv, Covered
<1>2. QED
  BY <1>1, Invariant, PTL

(* One order that overlaps with none makes the reverse index exact again,   *)
(* whatever was left there (update_socket_client_reserve_index).            *)
THEOREM RebuildRepairs == Spec => []OneOrderRepairs
<1>1. IInv => OneOrderRepairs
  <2> SUFFICES ASSUME IInv, whole, \A t \in Fds : at[t] = "idle", NEW fd \in Fds \ gone
               PROVE  {i \in Id : <<i, fd>> \in rev} = IF fd \in DOMAIN fwd THEN fwd[fd] ELSE {}
    BY DEF OneOrderRepairs, Exact
  <2>1. \A i \in Id : <<i, fd>> \in rev <=> fd \in DOMAIN fwd /\ i \in fwd[fd]
    BY DEF IInv, Repaired
  <2>2. fd \in DOMAIN fwd => fwd[fd] \subseteq Id
    BY DEF IInv, TypeOK
  <2>3. QED
    BY <2>1, <2>2
<1>2. QED
  BY <1>1, Invariant, PTL

--------------------------------------------------------------------------------
(* The filter table *)

Adding == {"count", "raise"}
Removing == {"lower", "load", "store", "test", "find", "erase", "drop"}

(* A thread's loop variables fit the place it is at. *)
ThreadOK(t) ==
  /\ left[t] \subseteq named[t] /\ hand[t] \subseteq named[t]
  /\ left[t] \cap hand[t] = {}
  /\ \A i, j \in hand[t] : i = j
  /\ place[t] \in {"idle", "install", "count", "lower"} => hand[t] = {}
  /\ place[t] = "idle" => named[t] = {}
  /\ place[t] \in Adding \cup {"install"} => op[t] = "add"
  /\ place[t] \in Removing => op[t] = "remove"
  /\ t \in stale => hand[t] # {} /\ hand[t] \subseteq lost

Shape == \A t \in Fds : ThreadOK(t)

(* An entry in the hand of a thread is there until it is erased. *)
Fresh == \A t \in Fds : t \notin stale => hand[t] \subseteq DOMAIN id_map

(* Where two orders name the same id they have met, and a REMOVE_FILTER is  *)
(* on the other's record.                                                   *)
Apart ==
  \A t, u \in Fds, i \in Id :
    t # u /\ i \in named[t] /\ i \in named[u] =>
      i \in lost /\ (op[u] = "remove" => i \in clash[t])

(* How far an ADD_FILTER has come with an id no REMOVE_FILTER has met. *)
AddOK(t, i) ==
  /\ place[t] \in Adding \/ (place[t] = "install" /\ i \notin left[t]) => i \in filter_map
  /\ place[t] \in Adding /\ i \notin left[t] => i \in DOMAIN id_map

Added == \A t \in Fds : \A i \in named[t] \ clash[t] : AddOK(t, i)

(* Id i has count n, and a filter just if that is not zero. *)
HasCount(i, n) == CountOf(i) = n /\ (i \in DOMAIN id_map <=> n > 0)
Has(i, n) == HasCount(i, n) /\ (i \in filter_map <=> n > 0)

(* The table at an id the order of thread t has for itself. *)
Stage(t, i) ==
  /\ place[t] = "install" =>
       HasCount(i, due[i]) /\ (i \in filter_map <=> due[i] > 0 \/ i \notin left[t])
  /\ place[t] \in Adding =>
       /\ i \in filter_map
       /\ i \in left[t] => HasCount(i, due[i])
       /\ i \in hand[t] => i \in DOMAIN id_map /\ CountOf(i) = due[i] /\ val[t] = due[i]
       /\ i \notin left[t] \cup hand[t] =>
            i \in DOMAIN id_map /\ CountOf(i) = (due[i] + 1) % Width
  /\ place[t] \in Removing =>
       /\ i \in left[t] => Has(i, due[i])
       /\ i \in hand[t] =>
            /\ due[i] > 0 /\ i \in DOMAIN id_map
            /\ i \in filter_map <=> place[t] # "drop"
            /\ CountOf(i) = IF place[t] \in {"load", "store"} THEN due[i] ELSE due[i] - 1
            /\ place[t] = "store" => val[t] = due[i]
            /\ place[t] \in {"find", "erase", "drop"} => due[i] = 1
       /\ i \notin left[t] \cup hand[t] => Has(i, IF due[i] = 0 THEN 0 ELSE due[i] - 1)

Follow ==
  \A i \in Id \ lost :
    /\ (\A t \in Fds : i \notin named[t]) => Has(i, due[i])
    /\ \A t \in Fds : i \in named[t] => Stage(t, i)

(* The inductive invariant. *)
FInv == FilterTypeOK /\ Shape /\ Fresh /\ Apart /\ Added /\ Follow

LEMMA Small == ASSUME NEW n \in 0 .. Width - 1 PROVE n % Width = n
BY WidthAssumption

LEMMA Residue == ASSUME NEW n \in Int PROVE n % Width \in 0 .. Width - 1
BY WidthAssumption

(* A step of thread t at id i of its order leaves the other ids and the     *)
(* other threads alone: what is to be shown is about t and i.               *)
LEMMA Touched ==
  ASSUME FInv, NEW t \in Fds, NEW i \in named[t],
         UNCHANGED orderVars, FilterTypeOK', ThreadOK(t)', Fresh',
         \A u \in Fds \ {t} :
           /\ place'[u] = place[u] /\ left'[u] = left[u] /\ hand'[u] = hand[u]
           /\ val'[u] = val[u]
           /\ u \in stale' => u \in stale \/ i \in hand[u],
         \A j \in Id \ {i} :
           /\ CountOf(j)' = CountOf(j)
           /\ j \in DOMAIN id_map' <=> j \in DOMAIN id_map
           /\ j \in filter_map' <=> j \in filter_map
           /\ j \in left'[t] <=> j \in left[t]
           /\ j \notin hand[t] /\ j \notin hand'[t],
         \/ place[t] = "install" /\ place'[t] = "install"
         \/ place[t] \in Adding /\ place'[t] \in Adding
         \/ place[t] \in Removing /\ place'[t] \in Removing,
         op[t] = "add" => /\ i \in filter_map => i \in filter_map'
                          /\ i \in DOMAIN id_map => i \in DOMAIN id_map',
         i \notin clash[t] => AddOK(t, i)',
         i \notin lost => Stage(t, i)'
  PROVE  FInv'
<1>1. /\ op' = op /\ named' = named /\ clash' = clash /\ lost' = lost /\ due' = due
      /\ \A u \in Fds : named[u] \subseteq Id
  BY DEF orderVars, FInv, FilterTypeOK
<1>2. Shape'
  <2> SUFFICES ASSUME NEW u \in Fds \ {t} PROVE ThreadOK(u)'
    BY DEF Shape
  <2>1. ThreadOK(u)
    BY DEF FInv, Shape
  <2>2. i \in hand[u] => hand[u] \subseteq lost
    BY <1>1, <2>1 DEF FInv, Apart, ThreadOK
  <2> QED
    BY <1>1, <2>1, <2>2 DEF ThreadOK
<1>3. Apart'
  BY <1>1 DEF FInv, Apart
<1>4. Added'
  <2> SUFFICES ASSUME NEW u \in Fds, NEW j \in named[u] \ clash[u] PROVE AddOK(u, j)'
    BY <1>1 DEF Added
  <2>1. AddOK(u, j) /\ j \in Id
    BY <1>1 DEF FInv, Added
  <2>2. CASE u # t /\ j = i
    <3>1. op[t] # "remove"
      BY <1>1, <2>2 DEF FInv, Apart
    <3>2. op[t] = "add"
      BY <3>1 DEF FInv, FilterTypeOK
    <3> QED
      BY <2>1, <2>2, <3>2 DEF AddOK
  <2>3. CASE u # t /\ j # i
    BY <2>1, <2>3 DEF AddOK
  <2>4. CASE u = t /\ j # i
    BY <2>1, <2>4 DEF AddOK, Adding, Removing
  <2> QED
    BY <2>2, <2>3, <2>4
<1>5. Follow'
  <2> SUFFICES ASSUME NEW j \in Id \ lost
               PROVE  /\ (\A u \in Fds : j \notin named[u]) => Has(j, due[j])'
                      /\ \A u \in Fds : j \in named[u] => Stage(u, j)'
    BY <1>1 DEF Follow
  <2>1. ASSUME \A u \in Fds : j \notin named[u]
        PROVE  Has(j, due[j])'
    <3>1. j # i /\ Has(j, due[j])
      BY <2>1 DEF FInv, Follow
    <3> QED
      BY <1>1, <3>1 DEF Has, HasCount
  <2>2. ASSUME NEW u \in Fds, j \in named[u]
        PROVE  Stage(u, j)'
    <3>1. Stage(u, j)
      BY <2>2 DEF FInv, Follow
    <3>2. CASE u # t
      <4>1. j # i
        BY <2>2, <3>2 DEF FInv, Apart
      <4> QED
        BY <1>1, <3>1, <3>2, <4>1 DEF Stage, Has, HasCount
    <3>3. CASE u = t /\ j # i
      BY <1>1, <3>1, <3>3 DEF Stage, Has, HasCount, Adding, Removing
    <3> QED
      BY <3>2, <3>3
  <2> QED
    BY <2>1, <2>2
<1> QED
  BY <1>2, <1>3, <1>4, <1>5 DEF FInv

(* What the invariant says of thread t and an id it is at. *)
LEMMA Here ==
  ASSUME FInv, NEW t \in Fds, NEW i \in Id, i \in left[t] \cup hand[t]
  PROVE  /\ i \in named[t] /\ ThreadOK(t)
         /\ i \notin clash[t] => AddOK(t, i)
         /\ i \notin lost => Stage(t, i)
         /\ hand[t] = {} \/ (i \in hand[t] /\ i \notin lost) => t \notin stale
         /\ i \in hand[t] => hand[t] = {i}
         /\ place[t] \in Places /\ val[t] \in 0 .. Width - 1
         /\ CountOf(i) \in 0 .. Width - 1 /\ due[i] \in 0 .. Width - 1
<1>1. ThreadOK(t)
  BY DEF FInv, Shape
<1>2. i \in named[t]
  BY <1>1 DEF ThreadOK
<1>3. (i \notin clash[t] => AddOK(t, i)) /\ (i \notin lost => Stage(t, i))
  BY <1>2 DEF FInv, Added, Follow
<1>4. i \in hand[t] => hand[t] = {i}
  BY <1>1 DEF ThreadOK
<1>5. hand[t] = {} \/ (i \in hand[t] /\ i \notin lost) => t \notin stale
  BY <1>1 DEF ThreadOK
<1>6. place[t] \in Places /\ val[t] \in 0 .. Width - 1 /\ due[i] \in 0 .. Width - 1
  BY DEF FInv, FilterTypeOK
<1>7. CountOf(i) \in 0 .. Width - 1
  BY WidthAssumption DEF FInv, FilterTypeOK, CountOf
<1> QED
  BY <1>1, <1>2, <1>3, <1>4, <1>5, <1>6, <1>7

LEMMA CountNewKeeps ==
  ASSUME FInv, NEW t \in Fds, NEW i \in Id, CountNew(t, i)
  PROVE  FInv'
<1>1. /\ place[t] = "count" /\ i \in left[t] /\ i \notin DOMAIN id_map
      /\ id_map' = Counted(i, 1) /\ left' = [left EXCEPT ![t] = @ \ {i}]
      /\ filter_map' = filter_map /\ place' = place /\ hand' = hand /\ val' = val
      /\ stale' = stale /\ UNCHANGED orderVars
  BY DEF CountNew
<1>2. /\ i \in named[t] /\ ThreadOK(t) /\ hand[t] = {}
      /\ i \notin clash[t] => AddOK(t, i)
      /\ i \notin lost => Stage(t, i)
  BY <1>1, Here DEF ThreadOK
<1>3. /\ DOMAIN id_map' = DOMAIN id_map \cup {i} /\ CountOf(i)' = 1
      /\ \A j \in Id \ {i} : CountOf(j)' = CountOf(j)
  BY <1>1, WidthAssumption DEF Counted, CountOf
<1>4. FilterTypeOK'
  <2>1. id_map' \in [DOMAIN id_map' -> 0 .. Width - 1]
    BY <1>1, WidthAssumption DEF Counted, FInv, FilterTypeOK
  <2> QED
    BY <1>1, <1>3, <2>1 DEF FInv, FilterTypeOK, orderVars
<1>5. /\ left'[t] = left[t] \ {i}
      /\ \A u \in Fds \ {t} : left'[u] = left[u]
  BY <1>1 DEF FInv, FilterTypeOK
<1>6. ThreadOK(t)'
  BY <1>1, <1>2, <1>5 DEF ThreadOK, orderVars
<1>7. i \notin clash[t] => AddOK(t, i)'
  BY <1>1, <1>2, <1>3, <1>5 DEF AddOK, Adding
<1>8. i \notin lost => Stage(t, i)'
  <2> SUFFICES ASSUME i \notin lost PROVE Stage(t, i)'
    OBVIOUS
  <2>1. i \in filter_map /\ due[i] = 0
    BY <1>1, <1>2 DEF Stage, HasCount, Adding, CountOf
  <2>2. due'[i] = 0 /\ (due[i] + 1) % Width = 1
    BY <1>1, <2>1, WidthAssumption DEF orderVars
  <2> QED
    BY <1>1, <1>2, <1>3, <1>5, <2>1, <2>2 DEF Stage, Adding, Removing
<1>9. Fresh'
  BY <1>1, <1>2, <1>3 DEF FInv, Fresh
<1> QED
  BY <1>1, <1>2, <1>3, <1>4, <1>5, <1>6, <1>7, <1>8, <1>9, Touched DEF Adding

(* A step that only looks at the table. *)
LEMMA Looked ==
  ASSUME FInv, NEW t \in Fds, NEW i \in Id, i \in left[t] \cup hand[t],
         UNCHANGED <<id_map, filter_map, orderVars>>,
         place' \in [Fds -> Places], left' \in [Fds -> SUBSET Id],
         hand' \in [Fds -> SUBSET Id], val' \in [Fds -> 0 .. Width - 1],
         stale' = stale \/ stale' = stale \ {t},
         \A u \in Fds \ {t} :
           place'[u] = place[u] /\ left'[u] = left[u] /\ hand'[u] = hand[u] /\ val'[u] = val[u],
         \A j \in Id \ {i} : /\ j \in left'[t] <=> j \in left[t]
                             /\ j \notin hand[t] /\ j \notin hand'[t],
         \/ place[t] \in Adding /\ place'[t] \in Adding /\ i \in left'[t] \cup DOMAIN id_map
         \/ place[t] \in Removing /\ place'[t] \in Removing,
         ThreadOK(t)', t \notin stale' => hand'[t] \subseteq DOMAIN id_map,
         i \notin lost => Stage(t, i)'
  PROVE  FInv'
<1>1. /\ id_map' = id_map /\ filter_map' = filter_map /\ op' = op /\ named' = named
      /\ clash' = clash /\ lost' = lost /\ due' = due
  BY DEF orderVars
<1>2. i \in named[t] /\ (i \notin clash[t] => AddOK(t, i))
  BY Here
<1>3. FilterTypeOK'
  BY <1>1 DEF FInv, FilterTypeOK
<1>4. i \notin clash[t] => AddOK(t, i)'
  BY <1>1, <1>2 DEF AddOK, Adding, Removing
<1>5. \A j \in Id : CountOf(j)' = CountOf(j)
  BY <1>1 DEF CountOf
<1>6. Fresh'
  BY <1>1 DEF FInv, Fresh
<1> QED
  BY <1>1, <1>2, <1>3, <1>4, <1>5, <1>6, Touched

LEMMA CountAgainKeeps ==
  ASSUME FInv, NEW t \in Fds, NEW i \in Id, CountAgain(t, i)
  PROVE  FInv'
<1>1. /\ place[t] = "count" /\ i \in left[t] /\ i \in DOMAIN id_map
      /\ id_map[i] \in 0 .. Width - 1
      /\ UNCHANGED <<id_map, filter_map, orderVars>>
      /\ place' = [place EXCEPT ![t] = "raise"]
      /\ left' = [left EXCEPT ![t] = @ \ {i}] /\ hand' = [hand EXCEPT ![t] = {i}]
      /\ val' = [val EXCEPT ![t] = id_map[i]] /\ stale' = stale
  BY DEF CountAgain, Take, FInv, FilterTypeOK
<1>2. /\ ThreadOK(t) /\ (i \in hand[t] => hand[t] = {i})
      /\ i \notin lost => Stage(t, i)
      /\ hand[t] = {} \/ (i \in hand[t] /\ i \notin lost) => t \notin stale
      /\ CountOf(i) \in 0 .. Width - 1 /\ due[i] \in 0 .. Width - 1
  BY <1>1, Here
<1>3. /\ place' \in [Fds -> Places] /\ left' \in [Fds -> SUBSET Id]
      /\ hand' \in [Fds -> SUBSET Id] /\ val' \in [Fds -> 0 .. Width - 1]
      /\ \A u \in Fds \ {t} :
           place'[u] = place[u] /\ left'[u] = left[u] /\ hand'[u] = hand[u] /\ val'[u] = val[u]
      /\ place'[t] = "raise" /\ left'[t] = left[t] \ {i} /\ hand'[t] = {i} /\ val'[t] = id_map[i]
  BY <1>1, WidthAssumption DEF FInv, FilterTypeOK, Places
<1>4. ThreadOK(t)'
  BY <1>1, <1>2, <1>3 DEF ThreadOK, Adding, Removing, orderVars
<1>5. ASSUME i \notin lost PROVE Stage(t, i)'
  <2>1. /\ due' = due /\ CountOf(i)' = CountOf(i)
        /\ i \in DOMAIN id_map => CountOf(i) = id_map[i]
        /\ i \notin DOMAIN id_map => CountOf(i) = 0
    BY <1>1 DEF orderVars, CountOf
  <2> QED
    BY <1>1, <1>2, <1>3, <1>5, <2>1 DEF Stage, Has, HasCount, Adding, Removing
<1>6. t \notin stale' => hand'[t] \subseteq DOMAIN id_map
  BY <1>1, <1>2, <1>3 DEF FInv, Fresh
<1> QED
  BY <1>1, <1>2, <1>3, <1>4, <1>5, <1>6, Looked DEF ThreadOK, Adding, Removing

LEMMA PassKeeps ==
  ASSUME FInv, NEW t \in Fds, NEW i \in Id, Pass(t, i)
  PROVE  FInv'
<1>1. /\ place[t] = "lower" /\ i \in left[t] /\ i \notin DOMAIN id_map
      /\ UNCHANGED <<id_map, filter_map, orderVars>>
      /\ place' = place
      /\ left' = [left EXCEPT ![t] = @ \ {i}] /\ hand' = hand
      /\ val' = val /\ stale' = stale
  BY DEF Pass
<1>2. /\ ThreadOK(t) /\ (i \in hand[t] => hand[t] = {i})
      /\ i \notin lost => Stage(t, i)
      /\ hand[t] = {} \/ (i \in hand[t] /\ i \notin lost) => t \notin stale
      /\ CountOf(i) \in 0 .. Width - 1 /\ due[i] \in 0 .. Width - 1
  BY <1>1, Here
<1>3. /\ place' \in [Fds -> Places] /\ left' \in [Fds -> SUBSET Id]
      /\ hand' \in [Fds -> SUBSET Id] /\ val' \in [Fds -> 0 .. Width - 1]
      /\ \A u \in Fds \ {t} :
           place'[u] = place[u] /\ left'[u] = left[u] /\ hand'[u] = hand[u] /\ val'[u] = val[u]
      /\ left'[t] = left[t] \ {i}
  BY <1>1, WidthAssumption DEF FInv, FilterTypeOK, Places
<1>4. ThreadOK(t)'
  BY <1>1, <1>2, <1>3 DEF ThreadOK, Adding, Removing, orderVars
<1>5. ASSUME i \notin lost PROVE Stage(t, i)'
  <2>1. /\ due' = due /\ CountOf(i)' = CountOf(i)
        /\ i \in DOMAIN id_map => CountOf(i) = id_map[i]
        /\ i \notin DOMAIN id_map => CountOf(i) = 0
    BY <1>1 DEF orderVars, CountOf
  <2> QED
    BY <1>1, <1>2, <1>3, <1>5, <2>1 DEF Stage, Has, HasCount, Adding, Removing
<1>6. t \notin stale' => hand'[t] \subseteq DOMAIN id_map
  BY <1>1, <1>2, <1>3 DEF FInv, Fresh
<1> QED
  BY <1>1, <1>2, <1>3, <1>4, <1>5, <1>6, Looked DEF ThreadOK, Adding, Removing

LEMMA LowerKeeps ==
  ASSUME FInv, NEW t \in Fds, NEW i \in Id, Lower(t, i)
  PROVE  FInv'
<1>1. /\ place[t] = "lower" /\ i \in left[t] /\ i \in DOMAIN id_map
      /\ UNCHANGED <<id_map, filter_map, orderVars>>
      /\ place' = [place EXCEPT ![t] = IF id_map[i] # 0 THEN "load" ELSE "test"]
      /\ left' = [left EXCEPT ![t] = @ \ {i}] /\ hand' = [hand EXCEPT ![t] = {i}]
      /\ val' = [val EXCEPT ![t] = 0] /\ stale' = stale
  BY DEF Lower, Take
<1>2. /\ ThreadOK(t) /\ (i \in hand[t] => hand[t] = {i})
      /\ i \notin lost => Stage(t, i)
      /\ hand[t] = {} \/ (i \in hand[t] /\ i \notin lost) => t \notin stale
      /\ CountOf(i) \in 0 .. Width - 1 /\ due[i] \in 0 .. Width - 1
  BY <1>1, Here
<1>3. /\ place' \in [Fds -> Places] /\ left' \in [Fds -> SUBSET Id]
      /\ hand' \in [Fds -> SUBSET Id] /\ val' \in [Fds -> 0 .. Width - 1]
      /\ \A u \in Fds \ {t} :
           place'[u] = place[u] /\ left'[u] = left[u] /\ hand'[u] = hand[u] /\ val'[u] = val[u]
      /\ place'[t] = (IF id_map[i] # 0 THEN "load" ELSE "test")
      /\ left'[t] = left[t] \ {i} /\ hand'[t] = {i}
  BY <1>1, WidthAssumption DEF FInv, FilterTypeOK, Places
<1>4. ThreadOK(t)'
  BY <1>1, <1>2, <1>3 DEF ThreadOK, Adding, Removing, orderVars
<1>5. ASSUME i \notin lost PROVE Stage(t, i)'
  <2>1. /\ due' = due /\ CountOf(i)' = CountOf(i)
        /\ i \in DOMAIN id_map => CountOf(i) = id_map[i]
        /\ i \notin DOMAIN id_map => CountOf(i) = 0
    BY <1>1 DEF orderVars, CountOf
  <2> QED
    BY <1>1, <1>2, <1>3, <1>5, <2>1 DEF Stage, Has, HasCount, Adding, Removing
<1>6. t \notin stale' => hand'[t] \subseteq DOMAIN id_map
  BY <1>1, <1>2, <1>3 DEF FInv, Fresh
<1> QED
  BY <1>1, <1>2, <1>3, <1>4, <1>5, <1>6, Looked DEF ThreadOK, Adding, Removing

LEMMA LowerLoadKeeps ==
  ASSUME FInv, NEW t \in Fds, NEW i \in Id, LowerLoad(t, i)
  PROVE  FInv'
<1>1. /\ place[t] = "load" /\ i \in hand[t]
      /\ UNCHANGED <<id_map, filter_map, orderVars>>
      /\ place' = [place EXCEPT ![t] = "store"]
      /\ left' = left /\ hand' = hand
      /\ \E n \in 0 .. Width - 1 : (t \in stale \/ n = CountOf(i)) /\ val' = [val EXCEPT ![t] = n]
      /\ stale' = stale
  BY DEF LowerLoad
<1>2. /\ ThreadOK(t) /\ (i \in hand[t] => hand[t] = {i})
      /\ i \notin lost => Stage(t, i)
      /\ hand[t] = {} \/ (i \in hand[t] /\ i \notin lost) => t \notin stale
      /\ CountOf(i) \in 0 .. Width - 1 /\ due[i] \in 0 .. Width - 1
  BY <1>1, Here
<1>3. /\ place' \in [Fds -> Places] /\ left' \in [Fds -> SUBSET Id]
      /\ hand' \in [Fds -> SUBSET Id] /\ val' \in [Fds -> 0 .. Width - 1]
      /\ \A u \in Fds \ {t} :
           place'[u] = place[u] /\ left'[u] = left[u] /\ hand'[u] = hand[u] /\ val'[u] = val[u]
      /\ place'[t] = "store" /\ (t \in stale \/ val'[t] = CountOf(i))
  BY <1>1, WidthAssumption DEF FInv, FilterTypeOK, Places
<1>4. ThreadOK(t)'
  BY <1>1, <1>2, <1>3 DEF ThreadOK, Adding, Removing, orderVars
<1>5. ASSUME i \notin lost PROVE Stage(t, i)'
  <2>1. /\ due' = due /\ CountOf(i)' = CountOf(i)
        /\ i \in DOMAIN id_map => CountOf(i) = id_map[i]
        /\ i \notin DOMAIN id_map => CountOf(i) = 0
    BY <1>1 DEF orderVars, CountOf
  <2> QED
    BY <1>1, <1>2, <1>3, <1>5, <2>1 DEF Stage, Has, HasCount, Adding, Removing
<1>6. t \notin stale' => hand'[t] \subseteq DOMAIN id_map
  BY <1>1, <1>2, <1>3 DEF FInv, Fresh
<1> QED
  BY <1>1, <1>2, <1>3, <1>4, <1>5, <1>6, Looked DEF ThreadOK, Adding, Removing

LEMMA TestZeroKeeps ==
  ASSUME FInv, NEW t \in Fds, NEW i \in Id, TestZero(t, i)
  PROVE  FInv'
<1>1. /\ place[t] = "test" /\ i \in hand[t] /\ (t \in stale \/ CountOf(i) = 0)
      /\ UNCHANGED <<id_map, filter_map, orderVars>>
      /\ place' = [place EXCEPT ![t] = "find"]
      /\ left' = left /\ hand' = hand
      /\ val' = val /\ stale' = stale
  BY DEF TestZero
<1>2. /\ ThreadOK(t) /\ (i \in hand[t] => hand[t] = {i})
      /\ i \notin lost => Stage(t, i)
      /\ hand[t] = {} \/ (i \in hand[t] /\ i \notin lost) => t \notin stale
      /\ CountOf(i) \in 0 .. Width - 1 /\ due[i] \in 0 .. Width - 1
  BY <1>1, Here
<1>3. /\ place' \in [Fds -> Places] /\ left' \in [Fds -> SUBSET Id]
      /\ hand' \in [Fds -> SUBSET Id] /\ val' \in [Fds -> 0 .. Width - 1]
      /\ \A u \in Fds \ {t} :
           place'[u] = place[u] /\ left'[u] = left[u] /\ hand'[u] = hand[u] /\ val'[u] = val[u]
      /\ place'[t] = "find"
  BY <1>1, WidthAssumption DEF FInv, FilterTypeOK, Places
<1>4. ThreadOK(t)'
  BY <1>1, <1>2, <1>3 DEF ThreadOK, Adding, Removing, orderVars
<1>5. ASSUME i \notin lost PROVE Stage(t, i)'
  <2>1. /\ due' = due /\ CountOf(i)' = CountOf(i)
        /\ i \in DOMAIN id_map => CountOf(i) = id_map[i]
        /\ i \notin DOMAIN id_map => CountOf(i) = 0
    BY <1>1 DEF orderVars, CountOf
  <2> QED
    BY <1>1, <1>2, <1>3, <1>5, <2>1 DEF Stage, Has, HasCount, Adding, Removing
<1>6. t \notin stale' => hand'[t] \subseteq DOMAIN id_map
  BY <1>1, <1>2, <1>3 DEF FInv, Fresh
<1> QED
  BY <1>1, <1>2, <1>3, <1>4, <1>5, <1>6, Looked DEF ThreadOK, Adding, Removing

LEMMA TestMoreKeeps ==
  ASSUME FInv, NEW t \in Fds, NEW i \in Id, TestMore(t, i)
  PROVE  FInv'
<1>1. /\ place[t] = "test" /\ i \in hand[t] /\ (t \in stale \/ CountOf(i) # 0)
      /\ UNCHANGED <<id_map, filter_map, orderVars>>
      /\ place' = [place EXCEPT ![t] = "lower"]
      /\ left' = left /\ hand' = [hand EXCEPT ![t] = {}] /\ val' = [val EXCEPT ![t] = 0]
      /\ stale' = stale \ {t}
  BY DEF TestMore, Release
<1>2. /\ ThreadOK(t) /\ (i \in hand[t] => hand[t] = {i})
      /\ i \notin lost => Stage(t, i)
      /\ hand[t] = {} \/ (i \in hand[t] /\ i \notin lost) => t \notin stale
      /\ CountOf(i) \in 0 .. Width - 1 /\ due[i] \in 0 .. Width - 1
  BY <1>1, Here
<1>3. /\ place' \in [Fds -> Places] /\ left' \in [Fds -> SUBSET Id]
      /\ hand' \in [Fds -> SUBSET Id] /\ val' \in [Fds -> 0 .. Width - 1]
      /\ \A u \in Fds \ {t} :
           place'[u] = place[u] /\ left'[u] = left[u] /\ hand'[u] = hand[u] /\ val'[u] = val[u]
      /\ place'[t] = "lower" /\ hand'[t] = {}
  BY <1>1, WidthAssumption DEF FInv, FilterTypeOK, Places
<1>4. ThreadOK(t)'
  BY <1>1, <1>2, <1>3 DEF ThreadOK, Adding, Removing, orderVars
<1>5. ASSUME i \notin lost PROVE Stage(t, i)'
  <2>1. /\ due' = due /\ CountOf(i)' = CountOf(i)
        /\ i \in DOMAIN id_map => CountOf(i) = id_map[i]
        /\ i \notin DOMAIN id_map => CountOf(i) = 0
    BY <1>1 DEF orderVars, CountOf
  <2> QED
    BY <1>1, <1>2, <1>3, <1>5, <2>1 DEF Stage, Has, HasCount, Adding, Removing
<1>6. t \notin stale' => hand'[t] \subseteq DOMAIN id_map
  BY <1>1, <1>2, <1>3 DEF FInv, Fresh
<1> QED
  BY <1>1, <1>2, <1>3, <1>4, <1>5, <1>6, Looked DEF ThreadOK, Adding, Removing

LEMMA FindNoneKeeps ==
  ASSUME FInv, NEW t \in Fds, NEW i \in Id, FindNone(t, i)
  PROVE  FInv'
<1>1. /\ place[t] = "find" /\ i \in hand[t] /\ i \notin filter_map
      /\ UNCHANGED <<id_map, filter_map, orderVars>>
      /\ place' = [place EXCEPT ![t] = "lower"]
      /\ left' = left /\ hand' = [hand EXCEPT ![t] = {}] /\ val' = [val EXCEPT ![t] = 0]
      /\ stale' = stale \ {t}
  BY DEF FindNone, Release
<1>2. /\ ThreadOK(t) /\ (i \in hand[t] => hand[t] = {i})
      /\ i \notin lost => Stage(t, i)
      /\ hand[t] = {} \/ (i \in hand[t] /\ i \notin lost) => t \notin stale
      /\ CountOf(i) \in 0 .. Width - 1 /\ due[i] \in 0 .. Width - 1
  BY <1>1, Here
<1>3. /\ place' \in [Fds -> Places] /\ left' \in [Fds -> SUBSET Id]
      /\ hand' \in [Fds -> SUBSET Id] /\ val' \in [Fds -> 0 .. Width - 1]
      /\ \A u \in Fds \ {t} :
           place'[u] = place[u] /\ left'[u] = left[u] /\ hand'[u] = hand[u] /\ val'[u] = val[u]
      /\ place'[t] = "lower" /\ hand'[t] = {}
  BY <1>1, WidthAssumption DEF FInv, FilterTypeOK, Places
<1>4. ThreadOK(t)'
  BY <1>1, <1>2, <1>3 DEF ThreadOK, Adding, Removing, orderVars
<1>5. ASSUME i \notin lost PROVE Stage(t, i)'
  <2>1. /\ due' = due /\ CountOf(i)' = CountOf(i)
        /\ i \in DOMAIN id_map => CountOf(i) = id_map[i]
        /\ i \notin DOMAIN id_map => CountOf(i) = 0
    BY <1>1 DEF orderVars, CountOf
  <2> QED
    BY <1>1, <1>2, <1>3, <1>5, <2>1 DEF Stage, Has, HasCount, Adding, Removing
<1>6. t \notin stale' => hand'[t] \subseteq DOMAIN id_map
  BY <1>1, <1>2, <1>3 DEF FInv, Fresh
<1> QED
  BY <1>1, <1>2, <1>3, <1>4, <1>5, <1>6, Looked DEF ThreadOK, Adding, Removing

LEMMA FindFilterKeeps ==
  ASSUME FInv, NEW t \in Fds, NEW i \in Id, FindFilter(t, i)
  PROVE  FInv'
<1>1. /\ place[t] = "find" /\ i \in hand[t] /\ i \in filter_map
      /\ UNCHANGED <<id_map, filter_map, orderVars>>
      /\ place' = [place EXCEPT ![t] = "erase"]
      /\ left' = left /\ hand' = hand
      /\ val' = val /\ stale' = stale
  BY DEF FindFilter
<1>2. /\ ThreadOK(t) /\ (i \in hand[t] => hand[t] = {i})
      /\ i \notin lost => Stage(t, i)
      /\ hand[t] = {} \/ (i \in hand[t] /\ i \notin lost) => t \notin stale
      /\ CountOf(i) \in 0 .. Width - 1 /\ due[i] \in 0 .. Width - 1
  BY <1>1, Here
<1>3. /\ place' \in [Fds -> Places] /\ left' \in [Fds -> SUBSET Id]
      /\ hand' \in [Fds -> SUBSET Id] /\ val' \in [Fds -> 0 .. Width - 1]
      /\ \A u \in Fds \ {t} :
           place'[u] = place[u] /\ left'[u] = left[u] /\ hand'[u] = hand[u] /\ val'[u] = val[u]
      /\ place'[t] = "erase"
  BY <1>1, WidthAssumption DEF FInv, FilterTypeOK, Places
<1>4. ThreadOK(t)'
  BY <1>1, <1>2, <1>3 DEF ThreadOK, Adding, Removing, orderVars
<1>5. ASSUME i \notin lost PROVE Stage(t, i)'
  <2>1. /\ due' = due /\ CountOf(i)' = CountOf(i)
        /\ i \in DOMAIN id_map => CountOf(i) = id_map[i]
        /\ i \notin DOMAIN id_map => CountOf(i) = 0
    BY <1>1 DEF orderVars, CountOf
  <2> QED
    BY <1>1, <1>2, <1>3, <1>5, <2>1 DEF Stage, Has, HasCount, Adding, Removing
<1>6. t \notin stale' => hand'[t] \subseteq DOMAIN id_map
  BY <1>1, <1>2, <1>3 DEF FInv, Fresh
<1> QED
  BY <1>1, <1>2, <1>3, <1>4, <1>5, <1>6, Looked DEF ThreadOK, Adding, Removing

(* What a store makes of the counts. *)
LEMMA StoreCounts ==
  ASSUME FilterTypeOK, NEW t \in Fds, NEW i \in Id, NEW n \in Int, Store(t, i, n),
         t \notin stale => i \in DOMAIN id_map
  PROVE  /\ DOMAIN id_map' = DOMAIN id_map
         /\ id_map' \in [DOMAIN id_map' -> 0 .. Width - 1]
         /\ \A j \in Id \ {i} : CountOf(j)' = CountOf(j)
         /\ t \notin stale => CountOf(i)' = n % Width
<1>1. n % Width \in 0 .. Width - 1
  BY Residue
<1>2. CASE id_map' = id_map /\ t \in stale
  BY <1>2 DEF FilterTypeOK, CountOf
<1>3. CASE i \in DOMAIN id_map /\ id_map' = Counted(i, n)
  <2>1. /\ DOMAIN id_map' = DOMAIN id_map /\ id_map'[i] = n % Width
        /\ \A j \in DOMAIN id_map \ {i} : id_map'[j] = id_map[j]
    BY <1>3 DEF Counted
  <2>2. id_map' \in [DOMAIN id_map' -> 0 .. Width - 1]
    BY <1>1, <1>3 DEF Counted, FilterTypeOK
  <2> QED
    BY <1>3, <2>1, <2>2 DEF CountOf
<1> QED
  BY <1>2, <1>3 DEF Store


LEMMA RaiseKeeps ==
  ASSUME FInv, NEW t \in Fds, NEW i \in Id, Raise(t, i)
  PROVE  FInv'
<1>1. /\ place[t] = "raise" /\ i \in hand[t] /\ Store(t, i, val[t] + 1)
      /\ UNCHANGED orderVars
      /\ place' = [place EXCEPT ![t] = "count"] /\ left' = left
      /\ hand' = [hand EXCEPT ![t] = {}] /\ val' = [val EXCEPT ![t] = 0]
      /\ filter_map' = filter_map /\ stale' = stale \ {t}
  BY DEF Raise, Release
<1>2. /\ i \in named[t] /\ ThreadOK(t) /\ hand[t] = {i}
      /\ i \notin clash[t] => AddOK(t, i)
      /\ i \notin lost => Stage(t, i) /\ t \notin stale
      /\ val[t] \in 0 .. Width - 1 /\ due[i] \in 0 .. Width - 1
  BY <1>1, Here
<1>3. /\ DOMAIN id_map' = DOMAIN id_map /\ id_map' \in [DOMAIN id_map' -> 0 .. Width - 1]
      /\ \A j \in Id \ {i} : CountOf(j)' = CountOf(j)
      /\ t \notin stale => CountOf(i)' = (val[t] + 1) % Width
  <2>1. t \notin stale => i \in DOMAIN id_map
    BY <1>1, <1>2 DEF FInv, Fresh
  <2> QED
    BY <1>1, <1>2, <2>1, StoreCounts DEF FInv
<1>4. /\ place' \in [Fds -> Places] /\ hand' \in [Fds -> SUBSET Id]
      /\ val' \in [Fds -> 0 .. Width - 1]
      /\ \A u \in Fds \ {t} :
           place'[u] = place[u] /\ left'[u] = left[u] /\ hand'[u] = hand[u] /\ val'[u] = val[u]
      /\ place'[t] = "count" /\ hand'[t] = {}
  BY <1>1, WidthAssumption DEF FInv, FilterTypeOK, Places
<1>5. FilterTypeOK'
  BY <1>1, <1>3, <1>4 DEF FInv, FilterTypeOK, orderVars
<1>6. ThreadOK(t)'
  BY <1>1, <1>2, <1>4 DEF ThreadOK, Adding, Removing, orderVars
<1>7. i \notin clash[t] => AddOK(t, i)'
  BY <1>1, <1>2, <1>3, <1>4 DEF AddOK, Adding, Removing
<1>8. ASSUME i \notin lost PROVE Stage(t, i)'
  <2>1. due' = due
    BY <1>1 DEF orderVars
  <2>2. /\ i \in filter_map /\ i \in DOMAIN id_map /\ val[t] = due[i]
        /\ CountOf(i)' = (due[i] + 1) % Width
    BY <1>1, <1>2, <1>3, <1>8 DEF Stage, Adding
  <2>3. i \notin left[t]
    BY <1>1, <1>2 DEF ThreadOK
  <2> QED
    BY <1>1, <1>2, <1>3, <1>4, <2>1, <2>2, <2>3 DEF Stage, Adding, Removing
<1>9. Fresh'
  BY <1>1, <1>2, <1>3, <1>4 DEF FInv, Fresh
<1> QED
  BY <1>1, <1>2, <1>3, <1>4, <1>5, <1>6, <1>7, <1>8, <1>9, Touched DEF ThreadOK, Adding, Removing

LEMMA LowerStoreKeeps ==
  ASSUME FInv, NEW t \in Fds, NEW i \in Id, LowerStore(t, i)
  PROVE  FInv'
<1>1. /\ place[t] = "store" /\ i \in hand[t] /\ Store(t, i, val[t] - 1)
      /\ UNCHANGED orderVars
      /\ place' = [place EXCEPT ![t] = "test"] /\ left' = left
      /\ hand' = hand /\ val' = [val EXCEPT ![t] = 0]
      /\ filter_map' = filter_map /\ stale' = stale
  BY DEF LowerStore
<1>2. /\ i \in named[t] /\ ThreadOK(t) /\ hand[t] = {i}
      /\ i \notin clash[t] => AddOK(t, i)
      /\ i \notin lost => Stage(t, i) /\ t \notin stale
      /\ val[t] \in 0 .. Width - 1 /\ due[i] \in 0 .. Width - 1
  BY <1>1, Here
<1>3. /\ DOMAIN id_map' = DOMAIN id_map /\ id_map' \in [DOMAIN id_map' -> 0 .. Width - 1]
      /\ \A j \in Id \ {i} : CountOf(j)' = CountOf(j)
      /\ t \notin stale => CountOf(i)' = (val[t] - 1) % Width
  <2>1. t \notin stale => i \in DOMAIN id_map
    BY <1>1, <1>2 DEF FInv, Fresh
  <2> QED
    BY <1>1, <1>2, <2>1, StoreCounts DEF FInv
<1>4. /\ place' \in [Fds -> Places] /\ hand' \in [Fds -> SUBSET Id]
      /\ val' \in [Fds -> 0 .. Width - 1]
      /\ \A u \in Fds \ {t} :
           place'[u] = place[u] /\ left'[u] = left[u] /\ hand'[u] = hand[u] /\ val'[u] = val[u]
      /\ place'[t] = "test"
  BY <1>1, WidthAssumption DEF FInv, FilterTypeOK, Places
<1>5. FilterTypeOK'
  BY <1>1, <1>3, <1>4 DEF FInv, FilterTypeOK, orderVars
<1>6. ThreadOK(t)'
  BY <1>1, <1>2, <1>4 DEF ThreadOK, Adding, Removing, orderVars
<1>7. i \notin clash[t] => AddOK(t, i)'
  BY <1>1, <1>2, <1>3, <1>4 DEF AddOK, Adding, Removing
<1>8. ASSUME i \notin lost PROVE Stage(t, i)'
  <2>1. due' = due
    BY <1>1 DEF orderVars
  <2>2. /\ i \in filter_map /\ i \in DOMAIN id_map /\ val[t] = due[i] /\ due[i] > 0
        /\ CountOf(i)' = (val[t] - 1) % Width
    BY <1>1, <1>2, <1>3, <1>8 DEF Stage, Removing
  <2>3. due[i] - 1 \in 0 .. Width - 1
    BY <1>2, <2>2, WidthAssumption
  <2>4. CountOf(i)' = due[i] - 1
    BY <2>2, <2>3, Small
  <2>5. i \notin left[t]
    BY <1>1, <1>2 DEF ThreadOK
  <2> QED
    BY <1>1, <1>2, <1>3, <1>4, <2>1, <2>2, <2>4, <2>5 DEF Stage, Adding, Removing
<1>9. Fresh'
  BY <1>1, <1>2, <1>3, <1>4 DEF FInv, Fresh
<1> QED
  BY <1>1, <1>2, <1>3, <1>4, <1>5, <1>6, <1>7, <1>8, <1>9, Touched DEF ThreadOK, Adding, Removing

LEMMA EraseFilterKeeps ==
  ASSUME FInv, NEW t \in Fds, NEW i \in Id, EraseFilter(t, i)
  PROVE  FInv'
<1>1. /\ place[t] = "erase" /\ i \in hand[t]
      /\ UNCHANGED orderVars
      /\ place' = [place EXCEPT ![t] = "drop"] /\ left' = left /\ hand' = hand /\ val' = val
      /\ id_map' = id_map /\ filter_map' = filter_map \ {i} /\ stale' = stale
  BY DEF EraseFilter
<1>2. /\ i \in named[t] /\ ThreadOK(t) /\ hand[t] = {i}
      /\ i \notin clash[t] => AddOK(t, i)
      /\ i \notin lost => Stage(t, i) /\ t \notin stale
      /\ val[t] \in 0 .. Width - 1 /\ due[i] \in 0 .. Width - 1
  BY <1>1, Here
<1>3. /\ id_map' = id_map /\ \A j \in Id : CountOf(j)' = CountOf(j)
  BY <1>1 DEF CountOf
<1>4. /\ place' \in [Fds -> Places] /\ hand' \in [Fds -> SUBSET Id]
      /\ val' \in [Fds -> 0 .. Width - 1]
      /\ \A u \in Fds \ {t} :
           place'[u] = place[u] /\ left'[u] = left[u] /\ hand'[u] = hand[u] /\ val'[u] = val[u]
      /\ place'[t] = "drop"
  BY <1>1, WidthAssumption DEF FInv, FilterTypeOK, Places
<1>5. FilterTypeOK'
  BY <1>1, <1>3, <1>4 DEF FInv, FilterTypeOK, orderVars
<1>6. ThreadOK(t)'
  BY <1>1, <1>2, <1>4 DEF ThreadOK, Adding, Removing, orderVars
<1>7. i \notin clash[t] => AddOK(t, i)'
  BY <1>1, <1>2, <1>3, <1>4 DEF AddOK, Adding, Removing
<1>8. ASSUME i \notin lost PROVE Stage(t, i)'
  <2>1. due' = due
    BY <1>1 DEF orderVars
  <2> QED
    BY <1>1, <1>2, <1>3, <1>4, <1>8, <2>1 DEF Stage, Has, HasCount, Adding, Removing
<1>9. Fresh'
  BY <1>1, <1>2, <1>3, <1>4 DEF FInv, Fresh
<1> QED
  BY <1>1, <1>2, <1>3, <1>4, <1>5, <1>6, <1>7, <1>8, <1>9, Touched DEF ThreadOK, Adding, Removing

LEMMA DropCountKeeps ==
  ASSUME FInv, NEW t \in Fds, NEW i \in Id, DropCount(t, i)
  PROVE  FInv'
<1>1. /\ place[t] = "drop" /\ i \in hand[t] /\ id_map' = Uncounted(i)
      /\ UNCHANGED orderVars
      /\ place' = [place EXCEPT ![t] = "lower"] /\ left' = left
      /\ hand' = [hand EXCEPT ![t] = {}] /\ val' = [val EXCEPT ![t] = 0]
      /\ filter_map' = filter_map
      /\ stale' = (stale \cup {u \in Fds : i \in hand[u]}) \ {t}
  BY DEF DropCount, Release
<1>2. /\ i \in named[t] /\ ThreadOK(t) /\ hand[t] = {i}
      /\ i \notin clash[t] => AddOK(t, i)
      /\ i \notin lost => Stage(t, i) /\ t \notin stale
      /\ val[t] \in 0 .. Width - 1 /\ due[i] \in 0 .. Width - 1
  BY <1>1, Here
<1>3. /\ DOMAIN id_map' = DOMAIN id_map \ {i} /\ id_map' \in [DOMAIN id_map' -> 0 .. Width - 1]
      /\ CountOf(i)' = 0 /\ \A j \in Id \ {i} : CountOf(j)' = CountOf(j)
  <2>1. id_map' \in [DOMAIN id_map \ {i} -> 0 .. Width - 1]
    BY <1>1 DEF Uncounted, FInv, FilterTypeOK
  <2> QED
    BY <1>1, <2>1 DEF Uncounted, CountOf
<1>4. /\ place' \in [Fds -> Places] /\ hand' \in [Fds -> SUBSET Id]
      /\ val' \in [Fds -> 0 .. Width - 1]
      /\ \A u \in Fds \ {t} :
           place'[u] = place[u] /\ left'[u] = left[u] /\ hand'[u] = hand[u] /\ val'[u] = val[u]
      /\ place'[t] = "lower" /\ hand'[t] = {}
  BY <1>1, WidthAssumption DEF FInv, FilterTypeOK, Places
<1>5. FilterTypeOK'
  BY <1>1, <1>3, <1>4 DEF FInv, FilterTypeOK, orderVars
<1>6. ThreadOK(t)'
  BY <1>1, <1>2, <1>4 DEF ThreadOK, Adding, Removing, orderVars
<1>7. i \notin clash[t] => AddOK(t, i)'
  BY <1>1, <1>2, <1>3, <1>4 DEF AddOK, Adding, Removing
<1>8. ASSUME i \notin lost PROVE Stage(t, i)'
  <2>1. due' = due
    BY <1>1 DEF orderVars
  <2> QED
    BY <1>1, <1>2, <1>3, <1>4, <1>8, <2>1 DEF Stage, Has, HasCount, Adding, Removing
<1>9. Fresh'
  BY <1>1, <1>2, <1>3, <1>4 DEF FInv, Fresh
<1> QED
  BY <1>1, <1>2, <1>3, <1>4, <1>5, <1>6, <1>7, <1>8, <1>9, Touched DEF ThreadOK, Adding, Removing

LEMMA InstallKeeps ==
  ASSUME FInv, NEW t \in Fds, NEW i \in Id, Install(t, i)
  PROVE  FInv'
<1>1. /\ place[t] = "install" /\ i \in left[t] /\ filter_map' = filter_map \cup {i}
      /\ place' = [place EXCEPT ![t] = IF left[t] = {i} THEN "count" ELSE @]
      /\ left' = [left EXCEPT ![t] = IF @ = {i} THEN named[t] ELSE @ \ {i}]
      /\ id_map' = id_map /\ hand' = hand /\ val' = val /\ stale' = stale
      /\ UNCHANGED orderVars
  BY DEF Install
<1>2. /\ i \in named[t] /\ ThreadOK(t) /\ hand[t] = {}
      /\ i \notin clash[t] => AddOK(t, i)
      /\ i \notin lost => Stage(t, i)
      /\ named[t] \subseteq Id
  BY <1>1, Here DEF ThreadOK, FInv, FilterTypeOK
<1>3. /\ place'[t] = IF left[t] = {i} THEN "count" ELSE "install"
      /\ left'[t] = IF left[t] = {i} THEN named[t] ELSE left[t] \ {i}
      /\ \A u \in Fds \ {t} : place'[u] = place[u] /\ left'[u] = left[u]
      /\ op' = op /\ named' = named /\ clash' = clash /\ lost' = lost /\ due' = due
  BY <1>1 DEF FInv, FilterTypeOK, orderVars
<1>4. FilterTypeOK'
  <2>1. place' \in [Fds -> Places] /\ left' \in [Fds -> SUBSET Id]
    BY <1>1, <1>2 DEF FInv, FilterTypeOK, Places
  <2> QED
    BY <1>1, <1>3, <2>1 DEF FInv, FilterTypeOK
<1>5. ThreadOK(t)'
  BY <1>1, <1>2, <1>3 DEF ThreadOK, Adding, Removing
<1>6. Fresh' /\ \A j \in Id : CountOf(j)' = CountOf(j)
  BY <1>1 DEF FInv, Fresh, CountOf
<1>7. CASE left[t] # {i}
  <2>1. i \notin clash[t] => AddOK(t, i)'
    BY <1>1, <1>3, <1>7 DEF AddOK, Adding
  <2>2. ASSUME i \notin lost PROVE Stage(t, i)'
    <3>1. HasCount(i, due[i])
      BY <1>1, <1>2, <2>2 DEF Stage
    <3> QED
      BY <1>1, <1>3, <1>6, <1>7, <3>1 DEF Stage, HasCount, Adding, Removing
  <2> QED
    BY <1>1, <1>2, <1>3, <1>4, <1>5, <1>6, <1>7, <2>1, <2>2, Touched
<1>8. CASE left[t] = {i}
  <2>1. Shape'
    BY <1>1, <1>3, <1>5 DEF FInv, Shape, ThreadOK
  <2>2. Apart'
    BY <1>3 DEF FInv, Apart
  <2>3. Added'
    <3> SUFFICES ASSUME NEW u \in Fds, NEW j \in named[u] \ clash[u] PROVE AddOK(u, j)'
      BY <1>3 DEF Added
    <3>1. AddOK(u, j)
      BY DEF FInv, Added
    <3> QED
      BY <1>1, <1>3, <1>8, <3>1 DEF AddOK, Adding
  <2>4. Follow'
    <3> SUFFICES ASSUME NEW j \in Id \ lost
                 PROVE  /\ (\A u \in Fds : j \notin named[u]) => Has(j, due[j])'
                        /\ \A u \in Fds : j \in named[u] => Stage(u, j)'
      BY <1>3 DEF Follow
    <3>1. ASSUME \A u \in Fds : j \notin named[u]
          PROVE  Has(j, due[j])'
      <4>1. j # i /\ Has(j, due[j])
        BY <1>2, <3>1 DEF FInv, Follow
      <4> QED
        BY <1>1, <1>3, <1>6, <4>1 DEF Has, HasCount
    <3>2. ASSUME NEW u \in Fds, j \in named[u]
          PROVE  Stage(u, j)'
      <4>1. Stage(u, j)
        BY <3>2 DEF FInv, Follow
      <4>2. CASE u # t
        <5>1. j # i
          BY <1>2, <3>2, <4>2 DEF FInv, Apart
        <5> QED
          BY <1>1, <1>3, <1>6, <4>1, <4>2, <5>1 DEF Stage, Has, HasCount
      <4>3. CASE u = t
        BY <1>1, <1>2, <1>3, <1>6, <1>8, <3>2, <4>1, <4>3
           DEF Stage, HasCount, Adding, Removing
      <4> QED
        BY <4>2, <4>3
    <3> QED
      BY <3>1, <3>2
  <2> QED
    BY <1>4, <1>6, <2>1, <2>2, <2>3, <2>4 DEF FInv
<1> QED
  BY <1>7, <1>8

LEMMA BeginKeeps ==
  ASSUME FInv, NEW t \in Fds, NEW order \in {"add", "remove"}, NEW ids \in SUBSET Id,
         Begin(t, order, ids)
  PROVE  FInv'
<1> DEFINE shared == {i \in ids : Changing(i) # {}}
<1>1. /\ place[t] = "idle" /\ lost' = lost \cup shared
      /\ place' = [place EXCEPT ![t] = IF order = "add" THEN "install" ELSE "lower"]
      /\ op' = [op EXCEPT ![t] = order]
      /\ named' = [named EXCEPT ![t] = ids] /\ left' = [left EXCEPT ![t] = ids]
      /\ due' = [i \in Id |-> IF i \in shared THEN 0 ELSE due[i]]
      /\ clash' = [u \in Fds |->
                     IF u = t THEN {i \in ids : \E v \in Changing(i) : op[v] = "remove"}
                     ELSE IF order = "remove" THEN clash[u] \cup (ids \cap named[u])
                     ELSE clash[u]]
      /\ id_map' = id_map /\ filter_map' = filter_map /\ hand' = hand /\ val' = val
      /\ stale' = stale
  BY DEF Begin
<1>2. ThreadOK(t) /\ named[t] = {} /\ hand[t] = {} /\ t \notin stale
  BY <1>1 DEF FInv, Shape, ThreadOK
<1>3. /\ place'[t] = IF order = "add" THEN "install" ELSE "lower"
      /\ op'[t] = order /\ named'[t] = ids /\ left'[t] = ids
      /\ \A u \in Fds \ {t} : /\ place'[u] = place[u] /\ op'[u] = op[u]
                              /\ named'[u] = named[u] /\ left'[u] = left[u]
  BY <1>1 DEF FInv, FilterTypeOK
<1>4. /\ clash'[t] = {i \in ids : \E v \in Changing(i) : op[v] = "remove"}
      /\ \A u \in Fds \ {t} : /\ clash[u] \subseteq clash'[u]
                              /\ order = "remove" => ids \cap named[u] \subseteq clash'[u]
  BY <1>1
<1>5. FilterTypeOK'
  <2>1. place' \in [Fds -> Places] /\ op' \in [Fds -> {"add", "remove"}]
    BY <1>1 DEF FInv, FilterTypeOK, Places
  <2>2. named' \in [Fds -> SUBSET Id] /\ left' \in [Fds -> SUBSET Id]
    BY <1>1 DEF FInv, FilterTypeOK
  <2>3. clash' \in [Fds -> SUBSET Id]
    BY <1>1 DEF FInv, FilterTypeOK
  <2>4. due' \in [Id -> 0 .. Width - 1]
    BY <1>1, WidthAssumption DEF FInv, FilterTypeOK
  <2> QED
    BY <1>1, <2>1, <2>2, <2>3, <2>4 DEF FInv, FilterTypeOK
<1>6. Shape'
  <2>1. ThreadOK(t)'
    BY <1>1, <1>2, <1>3 DEF ThreadOK, Adding, Removing
  <2>2. ASSUME NEW u \in Fds \ {t} PROVE ThreadOK(u)'
    <3>1. ThreadOK(u)
      BY DEF FInv, Shape
    <3> QED
      BY <1>1, <1>3, <2>2, <3>1 DEF ThreadOK
  <2> QED
    BY <2>1, <2>2 DEF Shape
<1>7. Fresh'
  BY <1>1 DEF FInv, Fresh
<1>8. Apart'
  <2> SUFFICES ASSUME NEW u \in Fds, NEW v \in Fds, NEW i \in Id, u # v,
                      i \in named'[u], i \in named'[v]
               PROVE  i \in lost' /\ (op'[v] = "remove" => i \in clash'[u])
    BY DEF Apart
  <2>1. CASE u = t
    BY <1>1, <1>3, <1>4, <2>1 DEF Changing
  <2>2. CASE v = t
    BY <1>1, <1>3, <1>4, <2>2 DEF Changing
  <2>3. CASE u # t /\ v # t
    BY <1>1, <1>3, <1>4, <2>3 DEF FInv, Apart
  <2> QED
    BY <2>1, <2>2, <2>3
<1>9. Added'
  <2> SUFFICES ASSUME NEW u \in Fds, NEW i \in named'[u], i \notin clash'[u]
               PROVE  AddOK(u, i)'
    BY DEF Added
  <2>1. CASE u = t
    BY <1>3, <2>1 DEF AddOK, Adding
  <2>2. CASE u # t
    <3>1. AddOK(u, i)
      BY <1>3, <1>4, <2>2 DEF FInv, Added
    <3> QED
      BY <1>1, <1>3, <2>2, <3>1 DEF AddOK
  <2> QED
    BY <2>1, <2>2
<1>10. Follow'
  <2> SUFFICES ASSUME NEW i \in Id, i \notin lost'
               PROVE  /\ (\A u \in Fds : i \notin named'[u]) => Has(i, due[i])'
                      /\ \A u \in Fds : i \in named'[u] => Stage(u, i)'
    BY DEF Follow
  <2>1. /\ i \notin lost /\ due'[i] = due[i] /\ CountOf(i)' = CountOf(i)
        /\ i \in ids => \A u \in Fds : i \notin named[u]
    BY <1>1 DEF CountOf, Changing
  <2>2. ASSUME \A u \in Fds : i \notin named'[u]
        PROVE  Has(i, due[i])'
    <3>1. Has(i, due[i])
      BY <1>2, <1>3, <2>1, <2>2 DEF FInv, Follow
    <3> QED
      BY <1>1, <2>1, <3>1 DEF Has, HasCount
  <2>3. ASSUME NEW u \in Fds, i \in named'[u]
        PROVE  Stage(u, i)'
    <3>1. CASE u = t
      <4>1. Has(i, due[i]) /\ i \in ids
        BY <1>3, <2>1, <2>3, <3>1 DEF FInv, Follow
      <4> QED
        BY <1>1, <1>2, <1>3, <2>1, <3>1, <4>1 DEF Stage, Has, HasCount, Adding, Removing
    <3>2. CASE u # t
      <4>1. Stage(u, i)
        BY <1>3, <2>1, <2>3, <3>2 DEF FInv, Follow
      <4> QED
        BY <1>1, <1>3, <2>1, <3>2, <4>1 DEF Stage, Has, HasCount
    <3> QED
      BY <3>1, <3>2
  <2> QED
    BY <2>2, <2>3
<1> QED
  BY <1>5, <1>6, <1>7, <1>8, <1>9, <1>10 DEF FInv

LEMMA LeaveKeeps ==
  ASSUME FInv, NEW t \in Fds, Leave(t)
  PROVE  FInv'
<1> DEFINE full == {i \in named[t] : op[t] = "add" /\ due[i] + 1 = Width}
<1>1. /\ place[t] \in {"count", "lower"} /\ left[t] = {} /\ lost' = lost \cup full
      /\ due' = [i \in Id |->
                   IF i \notin named[t] THEN due[i]
                   ELSE IF i \in lost \cup full THEN 0
                   ELSE IF op[t] = "add" THEN due[i] + 1
                   ELSE IF due[i] = 0 THEN 0 ELSE due[i] - 1]
      /\ place' = [place EXCEPT ![t] = "idle"] /\ op' = [op EXCEPT ![t] = "add"]
      /\ named' = [named EXCEPT ![t] = {}] /\ clash' = [clash EXCEPT ![t] = {}]
      /\ id_map' = id_map /\ filter_map' = filter_map /\ left' = left /\ hand' = hand
      /\ val' = val /\ stale' = stale
  BY DEF Leave
<1>2. /\ hand[t] = {} /\ t \notin stale
      /\ place[t] = "count" => op[t] = "add"
      /\ place[t] = "lower" => op[t] = "remove"
  BY <1>1 DEF FInv, Shape, ThreadOK, Adding, Removing
<1>3. /\ place'[t] = "idle" /\ op'[t] = "add" /\ named'[t] = {} /\ clash'[t] = {}
      /\ \A u \in Fds \ {t} : /\ place'[u] = place[u] /\ op'[u] = op[u]
                              /\ named'[u] = named[u] /\ clash'[u] = clash[u]
  BY <1>1 DEF FInv, FilterTypeOK
<1>4. FilterTypeOK'
  <2>1. place' \in [Fds -> Places] /\ op' \in [Fds -> {"add", "remove"}]
    BY <1>1 DEF FInv, FilterTypeOK, Places
  <2>2. named' \in [Fds -> SUBSET Id] /\ clash' \in [Fds -> SUBSET Id]
    BY <1>1 DEF FInv, FilterTypeOK
  <2>3. ASSUME NEW i \in Id PROVE due'[i] \in 0 .. Width - 1
    <3>1. due[i] \in 0 .. Width - 1
      BY DEF FInv, FilterTypeOK
    <3>2. i \in named[t] /\ op[t] = "add" /\ i \notin full => due[i] + 1 # Width
      OBVIOUS
    <3> QED
      BY <1>1, <3>1, <3>2, WidthAssumption
  <2>4. due' \in [Id -> 0 .. Width - 1]
    BY <1>1, <2>3
  <2>5. lost' \subseteq Id
    BY <1>1 DEF FInv, FilterTypeOK
  <2> QED
    BY <1>1, <2>1, <2>2, <2>4, <2>5 DEF FInv, FilterTypeOK
<1>5. Shape'
  <2>1. ThreadOK(t)'
    BY <1>1, <1>2, <1>3 DEF ThreadOK, Adding, Removing
  <2>2. ASSUME NEW u \in Fds \ {t} PROVE ThreadOK(u)'
    <3>1. ThreadOK(u)
      BY DEF FInv, Shape
    <3> QED
      BY <1>1, <1>3, <2>2, <3>1 DEF ThreadOK
  <2> QED
    BY <2>1, <2>2 DEF Shape
<1>6. Fresh'
  BY <1>1 DEF FInv, Fresh
<1>7. Apart'
  BY <1>1, <1>3 DEF FInv, Apart
<1>8. Added'
  BY <1>1, <1>3 DEF FInv, Added, AddOK
<1>9. Follow'
  <2> SUFFICES ASSUME NEW i \in Id, i \notin lost'
               PROVE  /\ (\A u \in Fds : i \notin named'[u]) => Has(i, due[i])'
                      /\ \A u \in Fds : i \in named'[u] => Stage(u, i)'
    BY DEF Follow
  <2>1. i \notin lost /\ i \notin full /\ CountOf(i)' = CountOf(i) /\ due[i] \in 0 .. Width - 1
    BY <1>1 DEF CountOf, FInv, FilterTypeOK
  <2>2. CASE i \in named[t]
    <3>1. Stage(t, i) /\ \A u \in Fds \ {t} : i \notin named[u]
      BY <2>1, <2>2 DEF FInv, Follow, Apart
    <3>2. CASE place[t] = "count"
      <4>1. due[i] + 1 \in 0 .. Width - 1 /\ due'[i] = due[i] + 1
        BY <1>1, <1>2, <2>1, <2>2, <3>2, WidthAssumption
      <4>2. CountOf(i) = due[i] + 1 /\ i \in DOMAIN id_map /\ i \in filter_map
        BY <1>1, <1>2, <3>1, <3>2, <4>1, Small DEF Stage, Adding
      <4>3. Has(i, due[i])'
        BY <1>1, <2>1, <4>1, <4>2 DEF Has, HasCount
      <4> QED
        BY <1>3, <3>1, <4>3
    <3>3. CASE place[t] = "lower"
      <4>1. Has(i, IF due[i] = 0 THEN 0 ELSE due[i] - 1)
        BY <1>1, <1>2, <3>1, <3>3 DEF Stage, Removing
      <4>2. due'[i] = IF due[i] = 0 THEN 0 ELSE due[i] - 1
        BY <1>1, <1>2, <2>1, <2>2, <3>3
      <4>3. Has(i, due[i])'
        BY <1>1, <2>1, <4>1, <4>2 DEF Has, HasCount
      <4> QED
        BY <1>3, <3>1, <4>3
    <3> QED
      BY <1>1, <3>2, <3>3
  <2>3. CASE i \notin named[t]
    <3>1. due'[i] = due[i]
      BY <1>1, <2>3
    <3>2. ASSUME \A u \in Fds : i \notin named'[u]
          PROVE  Has(i, due[i])'
      <4>1. Has(i, due[i])
        BY <1>3, <2>1, <2>3, <3>2 DEF FInv, Follow
      <4> QED
        BY <1>1, <2>1, <3>1, <4>1 DEF Has, HasCount
    <3>3. ASSUME NEW u \in Fds, i \in named'[u]
          PROVE  Stage(u, i)'
      <4>1. u # t /\ Stage(u, i)
        BY <1>3, <2>1, <3>3 DEF FInv, Follow
      <4> QED
        BY <1>1, <1>3, <2>1, <3>1, <4>1 DEF Stage, Has, HasCount
    <3> QED
      BY <3>2, <3>3
  <2> QED
    BY <2>2, <2>3
<1> QED
  BY <1>4, <1>5, <1>6, <1>7, <1>8, <1>9 DEF FInv

--------------------------------------------------------------------------------
LEMMA FilterInitInv == ASSUME FilterInit PROVE FInv
<1>1. FilterTypeOK
  BY WidthAssumption DEF FilterInit, FilterTypeOK, Places
<1>2. Shape /\ Fresh /\ Apart /\ Added
  BY DEF FilterInit, Shape, ThreadOK, Fresh, Apart, Added, Adding, Removing
<1>3. Follow
  BY DEF FilterInit, Follow, Has, HasCount, CountOf
<1> QED
  BY <1>1, <1>2, <1>3 DEF FInv

LEMMA FilterNextInv == ASSUME FInv, [FilterNext]_filterVars PROVE FInv'
<1>1. CASE UNCHANGED filterVars
  <2>1. /\ id_map' = id_map /\ filter_map' = filter_map /\ place' = place /\ left' = left
        /\ hand' = hand /\ val' = val /\ stale' = stale /\ op' = op /\ named' = named
        /\ clash' = clash /\ lost' = lost /\ due' = due
    BY <1>1 DEF filterVars, orderVars
  <2>2. FilterTypeOK' /\ Shape' /\ Fresh' /\ Apart'
    BY <2>1 DEF FInv, FilterTypeOK, Shape, ThreadOK, Fresh, Apart
  <2>3. Added' /\ Follow'
    BY <2>1 DEF FInv, Added, AddOK, Follow, Stage, Has, HasCount, CountOf
  <2> QED
    BY <2>2, <2>3 DEF FInv
<1>2. CASE FilterNext
  <2>1. PICK t \in Fds :
          \/ \E order \in {"add", "remove"}, ids \in SUBSET Id : Begin(t, order, ids)
          \/ \E i \in Id :
               \/ Install(t, i) \/ CountNew(t, i) \/ CountAgain(t, i) \/ Raise(t, i)
               \/ Pass(t, i) \/ Lower(t, i) \/ LowerLoad(t, i) \/ LowerStore(t, i)
               \/ TestZero(t, i) \/ TestMore(t, i) \/ FindNone(t, i) \/ FindFilter(t, i)
               \/ EraseFilter(t, i) \/ DropCount(t, i)
          \/ Leave(t)
    BY <1>2 DEF FilterNext
  <2> QED
    BY <2>1, BeginKeeps, LeaveKeeps, InstallKeeps, CountNewKeeps, CountAgainKeeps, RaiseKeeps,
       PassKeeps, LowerKeeps, LowerLoadKeeps, LowerStoreKeeps, TestZeroKeeps, TestMoreKeeps,
       FindNoneKeeps, FindFilterKeeps, EraseFilterKeeps, DropCountKeeps
<1> QED
  BY <1>1, <1>2

LEMMA FilterInvariant == FilterSpec => []FInv
BY FilterInitInv, FilterNextInv, PTL DEF FilterSpec

(* The variables of the filter table keep their types: counts stay in their *)
(* width, and a thread's loop within the ids (register_can_filter,          *)
(* deregister_can_filter).                                                  *)
THEOREM FilterTypeCorrect == FilterSpec => []FilterTypeOK
<1>1. FInv => FilterTypeOK
  BY DEF FInv
<1> QED
  BY <1>1, FilterInvariant, PTL

(* However the accesses of any number of threads interleave, an id at which *)
(* no two orders have met has just the count and the filter its orders have *)
(* made of it (register_can_filter, deregister_can_filter).                 *)
THEOREM UnracedStaysExact == FilterSpec => []UnracedIsExact
<1>1. FInv => UnracedIsExact
  <2> SUFFICES ASSUME FInv, NEW i \in Id \ lost, Changing(i) = {}
               PROVE  /\ CountOf(i) = due[i]
                      /\ i \in DOMAIN id_map <=> due[i] > 0
                      /\ i \in filter_map <=> due[i] > 0
    BY DEF UnracedIsExact
  <2>1. \A t \in Fds : i \notin named[t]
    BY DEF Changing
  <2>2. Has(i, due[i])
    BY <2>1 DEF FInv, Follow
  <2> QED
    BY <2>2 DEF Has, HasCount
<1> QED
  BY <1>1, FilterInvariant, PTL

(* However the orders of any number of threads overlap, an ADD_FILTER that  *)
(* ends leaves every id it named, and no REMOVE_FILTER met, counted and     *)
(* installed (register_can_filter).                                         *)
THEOREM AddedIsInstalled == FilterSpec => AddInstalls
<1>1. ASSUME FInv, FilterNext
      PROVE  \A t \in Fds : place[t] = "count" /\ place'[t] = "idle" =>
               named[t] \ clash[t] \subseteq filter_map' \cap DOMAIN id_map'
  <2> SUFFICES ASSUME NEW t \in Fds, place[t] = "count", place'[t] = "idle",
                      NEW i \in named[t] \ clash[t]
               PROVE  i \in filter_map' /\ i \in DOMAIN id_map'
    OBVIOUS
  <2>1. PICK u \in Fds :
          \/ \E order \in {"add", "remove"}, ids \in SUBSET Id : Begin(u, order, ids)
          \/ \E j \in Id :
               \/ Install(u, j) \/ CountNew(u, j) \/ CountAgain(u, j) \/ Raise(u, j)
               \/ Pass(u, j) \/ Lower(u, j) \/ LowerLoad(u, j) \/ LowerStore(u, j)
               \/ TestZero(u, j) \/ TestMore(u, j) \/ FindNone(u, j) \/ FindFilter(u, j)
               \/ EraseFilter(u, j) \/ DropCount(u, j)
          \/ Leave(u)
    BY <1>1 DEF FilterNext
  <2>2. place \in [Fds -> Places]
    BY <1>1 DEF FInv, FilterTypeOK
  <2>3. Leave(u) /\ u = t
    BY <2>1, <2>2 DEF Begin, Install, CountNew, CountAgain, Raise, Pass, Lower, LowerLoad,
       LowerStore, TestZero, TestMore, FindNone, FindFilter, EraseFilter, DropCount, Leave,
       Take, Release
  <2>4. left[t] = {} /\ id_map' = id_map /\ filter_map' = filter_map
    BY <2>3 DEF Leave
  <2>5. AddOK(t, i)
    BY <1>1 DEF FInv, Added
  <2> QED
    BY <2>4, <2>5 DEF AddOK, Adding
<1>2. ASSUME UNCHANGED filterVars
      PROVE  \A t \in Fds : place[t] = "count" /\ place'[t] = "idle" =>
               named[t] \ clash[t] \subseteq filter_map' \cap DOMAIN id_map'
  BY <1>2 DEF filterVars
<1>3. FInv /\ [FilterNext]_filterVars =>
        [\A t \in Fds : place[t] = "count" /\ place'[t] = "idle" =>
           named[t] \ clash[t] \subseteq filter_map' \cap DOMAIN id_map']_filterVars
  BY <1>1, <1>2
<1> QED
  BY <1>3, FilterInvariant, PTL DEF FilterSpec, AddInstalls
================================================================================
