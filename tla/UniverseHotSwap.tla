----------------------------- MODULE UniverseHotSwap -----------------------------
(***************************************************************************)
(* market-ingestor: how a change of the universe (the top symbols, fetched *)
(* every 15 minutes) reaches the two websocket managers and the open       *)
(* interest fetcher through a tokio watch channel (main.rs, universe.rs,   *)
(* stream.rs).                                                             *)
(*                                                                         *)
(* A watch channel keeps the last value and, per receiver, whether the     *)
(* value was sent after the receiver's last changed(): that is `unseen`.   *)
(* borrow() reads the value and does not mark it seen; changed() marks it  *)
(* seen and does not read it.  On the multi-threaded runtime a send may    *)
(* fall between any two steps of a receiver.                               *)
(*                                                                         *)
(* Abstracted: the market messages themselves, the length of the delays,   *)
(* and the order of the symbols, which fetch_top_50_coins fixes by sorting:*)
(* a universe is a set.  The sender lives as long as the process, so the   *)
(* `sender dropped` arms cannot run and are left out.                      *)
(***************************************************************************)
EXTENDS Integers, FiniteSets

CONSTANTS
    Coins,        \* the USDT symbols of the spot exchange
    Futures,      \* those the futures exchange trades as well
    TopN,         \* how many of them make a universe (50)
    Managers      \* the websocket managers: spot and futures run the same loop

ASSUME TopNAssumption == TopN \in Nat
ASSUME FuturesAssumption == Futures \subseteq Coins

VARIABLES
    universe,     \* the value in the watch channel
    unseen,       \* unseen[m]: the value was sent after the last changed() of m
    pc,           \* pc[m]: where the loop of manager m is
    symbols,      \* symbols[m]: the universe m last read to connect with
    oiUnseen,     \* the same flag for the open interest fetcher
    oiPc,         \* where the fetcher is
    oiTodo,       \* the symbols left in the sweep the fetcher is making
    oiCache       \* the symbols with a cached open interest

vars == <<universe, unseen, pc, symbols, oiUnseen, oiPc, oiTodo, oiCache>>

(* Mutant: the ranking is not cut after TopN. *)
Universes_NotCut == SUBSET Coins

(* What fetch_top_50_coins may return: the TopN of any ranking by volume. *)
Universes == {U \in SUBSET Coins : Cardinality(U) <= TopN}

Init ==
    /\ universe = {}
    /\ unseen = [m \in Managers |-> FALSE]
    /\ pc = [m \in Managers |-> "start"]
    /\ symbols = [m \in Managers |-> {}]
    /\ oiUnseen = FALSE
    /\ oiPc = "top"
    /\ oiTodo = {}
    /\ oiCache = {}

--------------------------------------------------------------------------------
(* The universe task: a fetch that succeeds is broadcast if it differs.     *)

Refresh(new) ==
    /\ new # universe
    /\ universe' = new
    /\ unseen' = [m \in Managers |-> TRUE]
    /\ oiUnseen' = TRUE
    /\ UNCHANGED <<pc, symbols, oiPc, oiTodo, oiCache>>

--------------------------------------------------------------------------------
(* A websocket manager.                                                     *)

Goto(m, from, to) ==
    /\ pc[m] = from
    /\ pc' = [pc EXCEPT ![m] = to]

(* Wait for the first non-empty universe. *)
StartupBorrow(m) ==
    /\ Goto(m, "start", IF universe = {} THEN "startwait" ELSE "top")
    /\ UNCHANGED <<universe, unseen, symbols, oiUnseen, oiPc, oiTodo, oiCache>>

(* rx.changed().await outside the read loop: then look at the value again. *)
ChangedWhileEmpty(m) ==
    /\ unseen[m]
    /\ \/ Goto(m, "startwait", "start")
       \/ Goto(m, "wait", "top")
    /\ unseen' = [unseen EXCEPT ![m] = FALSE]
    /\ UNCHANGED <<universe, symbols, oiUnseen, oiPc, oiTodo, oiCache>>

(* Mutant: the loop does not look whether the universe became empty. *)
Borrow_NoEmptyCheck(m) ==
    /\ Goto(m, "top", "connect")
    /\ symbols' = [symbols EXCEPT ![m] = universe]
    /\ UNCHANGED <<universe, unseen, oiUnseen, oiPc, oiTodo, oiCache>>

(* The top of the loop: take the universe to connect with, wait if empty. *)
Borrow(m) ==
    /\ Goto(m, "top", IF universe = {} THEN "wait" ELSE "connect")
    /\ symbols' = [symbols EXCEPT ![m] = universe]
    /\ UNCHANGED <<universe, unseen, oiUnseen, oiPc, oiTodo, oiCache>>

(* Mutant: the value is marked seen once the socket is open. *)
ConnectOk_MarksSeen(m) ==
    /\ Goto(m, "connect", "read")
    /\ unseen' = [unseen EXCEPT ![m] = FALSE]
    /\ UNCHANGED <<universe, symbols, oiUnseen, oiPc, oiTodo, oiCache>>

ConnectOk(m) ==
    /\ Goto(m, "connect", "read")
    /\ UNCHANGED <<universe, unseen, symbols, oiUnseen, oiPc, oiTodo, oiCache>>

(* The connection fails: sleep the backoff, then start over. *)
ConnectErr(m) ==
    /\ Goto(m, "connect", "pause")
    /\ UNCHANGED <<universe, unseen, symbols, oiUnseen, oiPc, oiTodo, oiCache>>

(* The read loop: rx.changed() wins the select ... *)
ChangedWhileReading(m) ==
    /\ unseen[m]
    /\ Goto(m, "read", "compare")
    /\ unseen' = [unseen EXCEPT ![m] = FALSE]
    /\ UNCHANGED <<universe, symbols, oiUnseen, oiPc, oiTodo, oiCache>>

(* ... and the value is borrowed: reconnect only if it really differs. *)
Compare(m) ==
    /\ Goto(m, "compare", IF universe # symbols[m] THEN "pause" ELSE "read")
    /\ UNCHANGED <<universe, unseen, symbols, oiUnseen, oiPc, oiTodo, oiCache>>

(* Closed by the server, a read error, the end, or a pong that fails. *)
SocketLost(m) ==
    /\ Goto(m, "read", "pause")
    /\ UNCHANGED <<universe, unseen, symbols, oiUnseen, oiPc, oiTodo, oiCache>>

(* The sleep before the loop starts over is done. *)
PauseOver(m) ==
    /\ Goto(m, "pause", "top")
    /\ UNCHANGED <<universe, unseen, symbols, oiUnseen, oiPc, oiTodo, oiCache>>

--------------------------------------------------------------------------------
(* The open interest fetcher.                                               *)

OiBorrow ==
    /\ oiPc = "top"
    /\ oiTodo' = universe
    /\ oiPc' = IF universe = {} THEN "wait" ELSE "sweep"
    /\ UNCHANGED <<universe, unseen, pc, symbols, oiUnseen, oiCache>>

OiChanged ==
    /\ oiPc = "wait"
    /\ oiUnseen
    /\ oiUnseen' = FALSE
    /\ oiPc' = "top"
    /\ UNCHANGED <<universe, unseen, pc, symbols, oiTodo, oiCache>>

(* One request of the sweep; only a usable answer enters the cache.  The     *)
(* universe is one of spot tickers, the futures API is asked: it never       *)
(* answers for a symbol it does not trade.                                   *)
OiFetch(c, ok) ==
    /\ oiPc = "sweep"
    /\ c \in oiTodo
    /\ ok => c \in Futures
    /\ oiTodo' = oiTodo \ {c}
    /\ oiCache' = IF ok THEN oiCache \union {c} ELSE oiCache
    /\ UNCHANGED <<universe, unseen, pc, symbols, oiUnseen, oiPc>>

(* Mutant: after a sweep the fetcher waits for a change of the universe. *)
OiSwept_Waits ==
    /\ oiPc = "sweep"
    /\ oiTodo = {}
    /\ oiPc' = "wait"
    /\ UNCHANGED <<universe, unseen, pc, symbols, oiUnseen, oiTodo, oiCache>>

(* The sweep is over: sleep 60 s, then read the universe again. *)
OiSwept ==
    /\ oiPc = "sweep"
    /\ oiTodo = {}
    /\ oiPc' = "top"
    /\ UNCHANGED <<universe, unseen, pc, symbols, oiUnseen, oiTodo, oiCache>>

--------------------------------------------------------------------------------

ManagerStep(m) ==
    \/ StartupBorrow(m)
    \/ ChangedWhileEmpty(m)
    \/ Borrow(m)
    \/ ConnectOk(m)
    \/ ConnectErr(m)
    \/ ChangedWhileReading(m)
    \/ Compare(m)
    \/ SocketLost(m)
    \/ PauseOver(m)

OiStep ==
    \/ OiBorrow
    \/ OiChanged
    \/ \E c \in Coins, ok \in BOOLEAN : OiFetch(c, ok)
    \/ OiSwept

Next ==
    \/ \E new \in Universes : Refresh(new)
    \/ \E m \in Managers : ManagerStep(m)
    \/ OiStep

Spec == Init /\ [][Next]_vars

(* The runtime drives every task; a socket that is asked for again and      *)
(* again is opened at some time, and stays up long enough for the select to *)
(* take a ready changed() arm; of infinitely many requests for a symbol that *)
(* the futures exchange trades REST answers some.  Nothing is assumed of the *)
(* universe task or of the sockets staying up.                              *)
Fairness ==
    /\ \A m \in Managers : /\ WF_vars(StartupBorrow(m))
                           /\ WF_vars(ChangedWhileEmpty(m))
                           /\ WF_vars(Borrow(m))
                           /\ WF_vars(ConnectOk(m) \/ ConnectErr(m))
                           /\ SF_vars(ConnectOk(m))
                           /\ SF_vars(ChangedWhileReading(m))
                           /\ WF_vars(Compare(m))
                           /\ WF_vars(PauseOver(m))
    /\ WF_vars(OiStep)
    /\ \A c \in Futures : SF_vars(OiFetch(c, TRUE))

LiveSpec == Spec /\ Fairness

--------------------------------------------------------------------------------
(* Correctness.                                                             *)

(* The shape of the state; what is broadcast and put into a URL never has   *)
(* more than TopN symbols.                                                  *)
TypeOK ==
    /\ universe \in SUBSET Coins /\ Cardinality(universe) <= TopN
    /\ unseen \in [Managers -> BOOLEAN]
    /\ pc \in [Managers -> {"start", "startwait", "top", "wait",
                            "connect", "read", "compare", "pause"}]
    /\ symbols \in [Managers -> SUBSET Coins]
    /\ \A m \in Managers : Cardinality(symbols[m]) <= TopN
    /\ oiUnseen \in BOOLEAN
    /\ oiPc \in {"top", "wait", "sweep"}
    /\ oiTodo \in SUBSET Coins
    /\ oiCache \in SUBSET Futures

(* No update is lost: a manager that is connecting or reading with another  *)
(* universe than the current one will still find changed() ready, and so    *)
(* will one that waits although the universe is no longer empty; wherever   *)
(* in its connect, backoff and read steps the broadcast fell.               *)
NoLostUpdate ==
    \A m \in Managers :
        /\ pc[m] \in {"connect", "read"} /\ symbols[m] # universe => unseen[m]
        /\ pc[m] \in {"startwait", "wait"} /\ universe # {} => unseen[m]

(* The same for the fetcher: it never sleeps through the first universe. *)
OiNotAsleep == oiPc = "wait" /\ universe # {} => oiUnseen

(* A manager never builds a URL without symbols: build_url would fail, the  *)
(* task would return the error and take the process down.                   *)
UrlHasSymbols ==
    \A m \in Managers :
        pc[m] \in {"connect", "read", "compare"} => symbols[m] # {}

(* Hot swap: a universe that stays is eventually the one every manager      *)
(* reads, whatever sockets are lost and whatever connects fail in between.  *)
HotSwap ==
    \A m \in Managers, U \in Universes \ {{}} :
        universe = U ~> (pc[m] = "read" /\ symbols[m] = U) \/ universe # U

(* Every symbol with futures that stays in the universe gets an open        *)
(* interest: the sweep is not held up by the symbols beside it for which the *)
(* request is refused every time, nor by universes that change meanwhile.    *)
OpenInterestFetched ==
    \A c \in Futures : c \in universe ~> c \in oiCache \/ c \notin universe
================================================================================
