-------------------------- MODULE UniverseHotSwapProofs --------------------------
(***************************************************************************)
(* Proofs about UniverseHotSwap, for every set of symbols, every size of a *)
(* universe and any number of managers.                                    *)
(***************************************************************************)
EXTENDS UniverseHotSwap, FiniteSetTheorems, TLAPS

(* The empty universe the watch channel starts with is not too large. *)
LEMMA TypeInit == Init => TypeOK
<1> DEFINE none == {}
<1>1. none \in SUBSET Coins /\ Cardinality(none) <= TopN
  BY FS_EmptySet, TopNAssumption
<1>2. Init => universe = none /\ oiTodo = none /\ symbols = [m \in Managers |-> none]
  BY DEF Init
<1> HIDE DEF none
<1> QED
  BY <1>1, <1>2 DEF Init, TypeOK

(* Every step preserves TypeOK: only Refresh changes the universe, to one   *)
(* that fetch_top_50_coins may return, and a manager copies the universe.   *)
LEMMA TypeStep == TypeOK /\ [Next]_vars => TypeOK'
<1> SUFFICES ASSUME TypeOK, [Next]_vars PROVE TypeOK'
  OBVIOUS
<1>1. CASE UNCHANGED vars
  BY <1>1 DEF vars, TypeOK
<1>2. ASSUME NEW new \in Universes, Refresh(new) PROVE TypeOK'
  BY <1>2 DEF Refresh, Universes, TypeOK
<1>3. ASSUME NEW m \in Managers, Borrow(m) PROVE TypeOK'
  BY <1>3 DEF Borrow, Goto, TypeOK
<1>4. ASSUME NEW m \in Managers, ChangedWhileEmpty(m) \/ ChangedWhileReading(m) PROVE TypeOK'
  BY <1>4 DEF ChangedWhileEmpty, ChangedWhileReading, Goto, TypeOK
<1>5. ASSUME NEW m \in Managers,
             \/ StartupBorrow(m) \/ ConnectOk(m) \/ ConnectErr(m)
             \/ Compare(m) \/ SocketLost(m) \/ PauseOver(m)
      PROVE  TypeOK'
  BY <1>5 DEF StartupBorrow, ConnectOk, ConnectErr, Compare, SocketLost, PauseOver, Goto, TypeOK
<1>6. CASE OiBorrow \/ OiChanged \/ OiSwept
  BY <1>6 DEF OiBorrow, OiChanged, OiSwept, TypeOK
<1>7. ASSUME NEW c \in Coins, NEW ok \in BOOLEAN, OiFetch(c, ok) PROVE TypeOK'
  BY <1>7 DEF OiFetch, TypeOK
<1> QED
  BY <1>1, <1>2, <1>3, <1>4, <1>5, <1>6, <1>7 DEF Next, ManagerStep, OiStep

(* The shape of the state; in particular no manager ever connects with more *)
(* than TopN symbols.                                                       *)
THEOREM TypeCorrect == Spec => []TypeOK
  BY TypeInit, TypeStep, PTL DEF Spec

--------------------------------------------------------------------------------
(* The broadcast.                                                           *)

(* Every step keeps every pending broadcast noticeable.  A manager clears   *)
(* its flag only on the way to a borrow; a borrow brings it up to date; a   *)
(* broadcast raises the flags of all.                                       *)
LEMMA NoLostUpdateStep ==
    TypeOK /\ NoLostUpdate /\ [Next]_vars => NoLostUpdate'
<1> SUFFICES ASSUME TypeOK, NoLostUpdate, [Next]_vars, NEW q \in Managers
             PROVE  /\ pc'[q] \in {"connect", "read"} /\ symbols'[q] # universe' => unseen'[q]
                    /\ pc'[q] \in {"startwait", "wait"} /\ universe' # {} => unseen'[q]
  BY DEF NoLostUpdate
<1> DEFINE Noticed == /\ pc'[q] \in {"connect", "read"} /\ symbols'[q] # universe' => unseen'[q]
                      /\ pc'[q] \in {"startwait", "wait"} /\ universe' # {} => unseen'[q]
<1> SUFFICES Noticed
  OBVIOUS
<1>1. CASE UNCHANGED vars
  BY <1>1 DEF vars, NoLostUpdate
<1>2. ASSUME NEW new \in Universes, Refresh(new) PROVE Noticed
  BY <1>2 DEF Refresh, TypeOK
<1>3. ASSUME NEW m \in Managers, StartupBorrow(m) PROVE Noticed
  BY <1>3 DEF StartupBorrow, Goto, TypeOK, NoLostUpdate
<1>4. ASSUME NEW m \in Managers, ChangedWhileEmpty(m) PROVE Noticed
  BY <1>4 DEF ChangedWhileEmpty, Goto, TypeOK, NoLostUpdate
<1>5. ASSUME NEW m \in Managers, Borrow(m) PROVE Noticed
  BY <1>5 DEF Borrow, Goto, TypeOK, NoLostUpdate
<1>6. ASSUME NEW m \in Managers, ConnectOk(m) \/ ConnectErr(m) PROVE Noticed
  BY <1>6 DEF ConnectOk, ConnectErr, Goto, TypeOK, NoLostUpdate
<1>7. ASSUME NEW m \in Managers, ChangedWhileReading(m) PROVE Noticed
  BY <1>7 DEF ChangedWhileReading, Goto, TypeOK, NoLostUpdate
<1>8. ASSUME NEW m \in Managers, Compare(m) PROVE Noticed
  BY <1>8 DEF Compare, Goto, TypeOK, NoLostUpdate
<1>9. ASSUME NEW m \in Managers, SocketLost(m) \/ PauseOver(m) PROVE Noticed
  BY <1>9 DEF SocketLost, PauseOver, Goto, TypeOK, NoLostUpdate
<1>10. CASE OiStep
  BY <1>10 DEF OiStep, OiBorrow, OiChanged, OiFetch, OiSwept, NoLostUpdate
<1> QED
  BY <1>1, <1>2, <1>3, <1>4, <1>5, <1>6, <1>7, <1>8, <1>9, <1>10 DEF Next, ManagerStep

(* No update is lost: a manager that connects or reads with an old          *)
(* universe, or waits although there is one, will find changed() ready.     *)
THEOREM NoLostUpdateCorrect == Spec => []NoLostUpdate
<1>1. Init => NoLostUpdate
  BY DEF Init, NoLostUpdate
<1> QED
  BY <1>1, TypeCorrect, NoLostUpdateStep, PTL DEF Spec

(* The fetcher never waits for a change that was already broadcast. *)
THEOREM OiNotAsleepCorrect == Spec => []OiNotAsleep
<1>1. Init => OiNotAsleep
  BY DEF Init, OiNotAsleep
<1>2. OiNotAsleep /\ [Next]_vars => OiNotAsleep'
  <2> SUFFICES ASSUME OiNotAsleep, [Next]_vars PROVE OiNotAsleep'
    OBVIOUS
  <2>1. CASE UNCHANGED vars
    BY <2>1 DEF vars, OiNotAsleep
  <2>2. ASSUME NEW new \in Universes, Refresh(new) PROVE OiNotAsleep'
    BY <2>2 DEF Refresh, OiNotAsleep
  <2>3. ASSUME NEW m \in Managers, ManagerStep(m) PROVE OiNotAsleep'
    BY <2>3 DEF ManagerStep, StartupBorrow, ChangedWhileEmpty, Borrow, ConnectOk, ConnectErr,
                ChangedWhileReading, Compare, SocketLost, PauseOver, OiNotAsleep
  <2>4. CASE OiStep
    BY <2>4 DEF OiStep, OiBorrow, OiChanged, OiFetch, OiSwept, OiNotAsleep
  <2> QED
    BY <2>1, <2>2, <2>3, <2>4 DEF Next
<1> QED
  BY <1>1, <1>2, PTL DEF Spec

(* A manager never builds a URL from an empty universe, also when the       *)
(* universe becomes empty under it: build_url cannot end the process.       *)
THEOREM UrlHasSymbolsCorrect == Spec => []UrlHasSymbols
<1>1. Init => UrlHasSymbols
  BY DEF Init, UrlHasSymbols
<1>2. TypeOK /\ UrlHasSymbols /\ [Next]_vars => UrlHasSymbols'
  <2> SUFFICES ASSUME TypeOK, UrlHasSymbols, [Next]_vars, NEW q \in Managers,
                      pc'[q] \in {"connect", "read", "compare"}
               PROVE  symbols'[q] # {}
    BY DEF UrlHasSymbols
  <2>1. CASE UNCHANGED vars
    BY <2>1 DEF vars, UrlHasSymbols
  <2>2. ASSUME NEW new \in Universes, Refresh(new) PROVE symbols'[q] # {}
    BY <2>2 DEF Refresh, UrlHasSymbols
  <2>3. ASSUME NEW m \in Managers, Borrow(m) PROVE symbols'[q] # {}
    BY <2>3 DEF Borrow, Goto, TypeOK, UrlHasSymbols
  <2>4. ASSUME NEW m \in Managers,
               \/ StartupBorrow(m) \/ ChangedWhileEmpty(m) \/ ConnectOk(m) \/ ConnectErr(m)
        PROVE  symbols'[q] # {}
    BY <2>4 DEF StartupBorrow, ChangedWhileEmpty, ConnectOk, ConnectErr, Goto, TypeOK, UrlHasSymbols
  <2>5. ASSUME NEW m \in Managers,
               \/ ChangedWhileReading(m) \/ Compare(m) \/ SocketLost(m) \/ PauseOver(m)
        PROVE  symbols'[q] # {}
    BY <2>5 DEF ChangedWhileReading, Compare, SocketLost, PauseOver, Goto, TypeOK, UrlHasSymbols
  <2>6. CASE OiStep
    BY <2>6 DEF OiStep, OiBorrow, OiChanged, OiFetch, OiSwept, UrlHasSymbols
  <2> QED
    BY <2>1, <2>2, <2>3, <2>4, <2>5, <2>6 DEF Next, ManagerStep
<1> QED
  BY <1>1, <1>2, TypeCorrect, PTL DEF Spec
================================================================================
