---------------------- MODULE OrderStateMachine_proofs ----------------------
(***************************************************************************)
(* Proofs about the order state machines, for every set of markets, every  *)
(* size and every choice of signals, faults and bounds.                    *)
(***************************************************************************)
EXTENDS OrderStateMachine, FiniteSetTheorems, TLAPS

Slot == {"none", "live", "filled"}

-----------------------------------------------------------------------------
(* What the operators the actions are built from return.                   *)

\* An immediate order for q lots never matches more than q, and matches a
\* whole number of lots, whatever the CLOB client is told.
LEMMA IocType ==
    ASSUME NEW q \in Nat
    PROVE  \A o \in IocOutcomes(q) : o.matched \in 0..q
<1> SUFFICES ASSUME NEW o \in IocOutcomes(q) PROVE o.matched \in 0..q
  OBVIOUS
<1>1. CASE o = [ok |-> TRUE, id |-> TRUE, matched |-> q]
  <2>1. o.matched = q  BY <1>1
  <2> QED  BY <2>1
<1>2. CASE o \in [ok : {TRUE}, id : {TRUE}, matched : 0..q]
  BY <1>2
<1>3. CASE o \in [ok : {FALSE}, id : BOOLEAN, matched : {0}]
  <2>1. o.matched = 0  BY <1>3
  <2> QED  BY <2>1
<1>4. CASE o \in [ok : BOOLEAN, id : {FALSE}, matched : {0, q}]
  <2>1. o.matched \in {0, q}  BY <1>4
  <2> QED  BY <2>1
<1> QED  BY <1>1, <1>2, <1>3, <1>4, Zenon DEF IocOutcomes

\* Cutting a quantity to three decimals gives whole lots, never more than it was,
\* and leaves whole lots alone.
LEMMA FmtQtyType ==
    ASSUME NEW q \in Nat
    PROVE  /\ FmtQty(q) \in 0..q
           /\ FmtQty(FmtQty(q)) = FmtQty(q)
           /\ q >= HedgeLot => FmtQty(q) >= HedgeLot
  BY DEF FmtQty, HedgeLot

\* A hedge order executes and reports at most the quantity that was cut, and what
\* it reports it has executed.
LEMMA HedgeType ==
    ASSUME NEW q \in Nat
    PROVE  \A h \in HedgeOutcomes(q) :
             /\ h.exec \in 0..FmtQty(q) /\ h.actual \in 0..FmtQty(q)
             /\ h.exec \in Nat /\ h.actual \in Nat
             /\ h.exec > 0 => h.actual = h.exec
<1>1. FmtQty(q) \in Nat  BY FmtQtyType
<1> QED  BY <1>1 DEF HedgeOutcomes

\* A hedge that counts as filled has executed something.
LEMMA FilledExecutes ==
    ASSUME NEW q \in HedgeSizes, NEW exec \in Nat, HedgeFilled(exec, q)
    PROVE  exec > 0
  BY HedgeAssumption DEF HedgeSizes, HedgeFilled, HedgeLot

\* cancel_all can only leave behind orders on the two sides of the book.
LEMMA LostType ==
    ASSUME NEW q
    PROVE  \A lost \in LostCancels(q) : lost \subseteq Sides
  BY DEF LostCancels

\* MakerArm::quote leaves well-formed order slots.
LEMMA QuoteType ==
    ASSUME NEW q, NEW r \in QuoteFrom(q)
    PROVE  /\ r.ok \in BOOLEAN
           /\ r.quotes \in [Sides -> Slot]
           /\ r.left \subseteq Sides
  BY LostType DEF QuoteFrom, QuoteResults, Slot

\* MakerArm::manage leaves well-formed order slots.
LEMMA ManageType ==
    ASSUME NEW q \in [Sides -> Slot], NEW r \in Manage(q)
    PROVE  /\ r.quotes \in [Sides -> Slot]
           /\ r.left \subseteq Sides
  BY LostType, QuoteType DEF Manage, NoQuotes, Slot, Sides

\* Dropping order ids keeps the count of stray orders a count.
LEMMA StrayType ==
    ASSUME TypeOK, NEW m \in Markets, NEW left
    PROVE  StrayAfter(m, left) \in [Markets -> [Sides -> Nat]]
  BY BoundAssumption DEF StrayAfter, Capped, TypeOK

-----------------------------------------------------------------------------
(* The inductive invariant.  BookedIffOpen is not inductive alone: that a   *)
(* taker entry books into an empty slot needs pc = "fire" => TAKER_EVAL.    *)

Inv == TypeOK /\ BookedIffOpen /\ OrdersMatchState

\* Submitting the close orders of a position only touches that market.
LEMMA SubmitCloseEffect ==
    ASSUME TypeOK, NEW m \in Markets, NEW p \in [size : Nat, hedge : Nat],
           NEW n \in Nat, SubmitClose(m, p, n)
    PROVE  /\ st' = [st EXCEPT ![m] = "CLOSING"]
           /\ close' \in [Markets -> {"none", "filled", "cancelled"}]
           /\ \A k \in Markets \ {m} : close'[k] = close[k]
           /\ closes' \in [Markets -> Nat]
           /\ yes' \in [Markets -> Int]
           /\ btc' \in [Markets -> Int]
<1>1. PICK o \in CloseOutcomes(p.size, n), h \in CloseHedges(p.hedge, n) :
        /\ st' = [st EXCEPT ![m] = "CLOSING"]
        /\ close' = [close EXCEPT ![m] = IF ~o.id THEN "none"
                                        ELSE IF o.matched = p.size THEN "filled"
                                        ELSE "cancelled"]
        /\ closes' = [closes EXCEPT ![m] = Capped(n + 1, MaxCloses)]
        /\ yes' = [yes EXCEPT ![m] = yes[m] - o.matched]
        /\ btc' = [btc EXCEPT ![m] = btc[m] - h.actual]
  BY DEF SubmitClose
<1>2. o.matched \in Nat
  <2>1. CASE n < MaxCloses
    BY <2>1, IocType DEF CloseOutcomes
  <2>2. CASE ~(n < MaxCloses)
    <3>1. o = [ok |-> TRUE, id |-> TRUE, matched |-> 0]  BY <2>2 DEF CloseOutcomes
    <3>2. o.matched = 0  BY <3>1
    <3> QED  BY <3>2
  <2> QED  BY <2>1, <2>2
<1>3. h.actual \in Nat
  BY HedgeType DEF CloseHedges
<1>4. Capped(n + 1, MaxCloses) \in Nat
  BY BoundAssumption DEF Capped
<1>5. close' \in [Markets -> {"none", "filled", "cancelled"}]
  BY <1>1, Zenon DEF TypeOK
<1>6. yes' \in [Markets -> Int] /\ btc' \in [Markets -> Int] /\ closes' \in [Markets -> Nat]
  BY <1>1, <1>2, <1>3, <1>4 DEF TypeOK
<1> QED  BY <1>1, <1>5, <1>6 DEF TypeOK

\* close_position leaves CLOSING behind exactly when a position is open.
LEMMA ClosePositionEffect ==
    ASSUME TypeOK, NEW m \in Markets, close_position(m)
    PROVE  /\ st' = [st EXCEPT ![m] = IF IsOpen(m) THEN "CLOSING" ELSE "IDLE"]
           /\ close' \in [Markets -> {"none", "filled", "cancelled"}]
           /\ \A k \in Markets \ {m} : close'[k] = close[k]
           /\ ~IsOpen(m) => close' = close
           /\ closes' \in [Markets -> Nat]
           /\ yes' \in [Markets -> Int]
           /\ btc' \in [Markets -> Int]
<1>1. pos[m] \in [size : Nat, hedge : Nat] /\ closes[m] \in Nat
  BY DEF TypeOK
<1>2. CASE IsOpen(m)
  BY <1>1, <1>2, SubmitCloseEffect DEF close_position
<1>3. CASE ~IsOpen(m)
  BY <1>3 DEF close_position, accountVars, TypeOK
<1> QED  BY <1>2, <1>3

\* Latching the passed deadlines keeps flags a set of deadlines.
LEMMA LatchedType ==
    ASSUME TypeOK, NEW m \in Markets
    PROVE  [flags EXCEPT ![m] = Latched(m)] \in [Markets -> SUBSET Deadlines]
  BY DEF Latched, TypeOK

USE DEF vars, machineVars, quoteVars, sharedVars, controlVars, accountVars

\* The initial state satisfies the invariant.
LEMMA InitInv == Init => Inv
  BY DEF Init, Inv, TypeOK, BookedIffOpen, OrdersMatchState, IsOpen, NoPosition,
         NoQuotes, States, Gone

\* run() leaving its loop on the stop flag keeps the invariant.
LEMMA StopKeepsInv ==
    ASSUME Inv, NEW m \in Markets, run_stop(m) PROVE Inv'
  BY DEF run_stop, Inv, TypeOK, BookedIffOpen, OrdersMatchState, IsOpen

\* Serving a flatten request keeps the invariant.
LEMMA FlattenKeepsInv ==
    ASSUME Inv, NEW m \in Markets, run_flatten(m) PROVE Inv'
<1>1. close_position(m) /\ TypeOK  BY DEF run_flatten, Inv
<1>2. TypeOK'
  BY <1>1, ClosePositionEffect DEF run_flatten, TypeOK, States
<1>3. BookedIffOpen'
  <2>1. pos' = pos /\ st' = [st EXCEPT ![m] = IF IsOpen(m) THEN "CLOSING" ELSE "IDLE"]
        /\ st \in [Markets -> States]
    BY <1>1, ClosePositionEffect DEF run_flatten, TypeOK
  <2> QED  BY <2>1 DEF Inv, BookedIffOpen, IsOpen
<1>4. OrdersMatchState'
  <2> SUFFICES ASSUME NEW k \in Markets
               PROVE  /\ pc'[k] = "fire" => st'[k] = "TAKER_EVAL"
                      /\ st'[k] = "TAKER_EVAL" => ~cooldown'[k]
                      /\ close'[k] # "none" => st'[k] = "CLOSING"
    BY DEF OrdersMatchState
  <2>1. CASE k = m
    BY <1>1, <2>1, ClosePositionEffect
    DEF run_flatten, Inv, TypeOK, BookedIffOpen, OrdersMatchState
  <2>2. CASE k # m
    BY <1>1, <2>2, ClosePositionEffect DEF run_flatten, Inv, TypeOK, OrdersMatchState
  <2> QED  BY <2>1, <2>2
<1> QED  BY <1>2, <1>3, <1>4 DEF Inv

\* An iteration after resolution keeps the invariant.
LEMMA ExpiredKeepsInv ==
    ASSUME Inv, NEW m \in Markets, evaluate_expired(m) PROVE Inv'
<1> TypeOK  BY DEF Inv
<1>1. CASE IsOpen(m)
  <2>1. close_position(m)  BY <1>1 DEF evaluate_expired
  <2>2. TypeOK'
    BY <1>1, <2>1, ClosePositionEffect, LatchedType DEF evaluate_expired, TypeOK, States
  <2>3. BookedIffOpen' /\ OrdersMatchState'
    BY <1>1, <2>1, ClosePositionEffect
    DEF evaluate_expired, Inv, TypeOK, BookedIffOpen, OrdersMatchState, IsOpen, States
  <2> QED  BY <2>2, <2>3 DEF Inv
<1>2. CASE ~IsOpen(m)
  <2>1. TypeOK'
    BY <1>2, LatchedType DEF evaluate_expired, TypeOK
  <2>2. BookedIffOpen' /\ OrdersMatchState'
    BY <1>2 DEF evaluate_expired, Inv, TypeOK, BookedIffOpen, OrdersMatchState, IsOpen
  <2> QED  BY <2>1, <2>2 DEF Inv
<1> QED  BY <1>1, <1>2

\* handle_idle keeps the invariant.
LEMMA IdleKeepsInv ==
    ASSUME Inv, NEW m \in Markets, handle_idle(m) PROVE Inv'
<1> TypeOK  BY DEF Inv
<1>1. ~IsOpen(m) /\ st[m] = "IDLE" /\ pc' = [pc EXCEPT ![m] = "loop"]
  BY DEF handle_idle, Dispatch, Inv, BookedIffOpen, NextIteration
<1>2. flags' \in [Markets -> SUBSET Deadlines]
  BY LatchedType DEF handle_idle, Dispatch
<1>3. CASE StayIdle(m)
  <2>1. TypeOK'
    BY <1>1, <1>2, <1>3 DEF handle_idle, StayIdle, TypeOK
  <2>2. BookedIffOpen' /\ OrdersMatchState'
    BY <1>1, <1>3 DEF handle_idle, StayIdle, Inv, TypeOK, BookedIffOpen, OrdersMatchState, IsOpen
  <2> QED  BY <2>1, <2>2 DEF Inv
<1>4. CASE IdleToTaker(m)
  <2>1. TypeOK'
    BY <1>1, <1>2, <1>4 DEF handle_idle, IdleToTaker, TypeOK, States
  <2>2. BookedIffOpen' /\ OrdersMatchState'
    BY <1>1, <1>4
    DEF handle_idle, IdleToTaker, TakerEdge, Inv, TypeOK, BookedIffOpen, OrdersMatchState, IsOpen
  <2> QED  BY <2>1, <2>2 DEF Inv
<1>5. CASE IdleToMaker(m)
  <2>1. PICK r \in QuoteFrom(quotes[m]) :
          /\ quotes' = [quotes EXCEPT ![m] = r.quotes]
          /\ stray' = StrayAfter(m, r.left)
          /\ st' = IF r.ok THEN [st EXCEPT ![m] = "MAKER_QUOTED"] ELSE st
    BY <1>5 DEF IdleToMaker
  <2>2. quotes' \in [Markets -> [Sides -> Slot]] /\ stray' \in [Markets -> [Sides -> Nat]]
    BY <2>1, QuoteType, StrayType DEF TypeOK, Slot
  <2>3. st' = st \/ st' = [st EXCEPT ![m] = "MAKER_QUOTED"]
    BY <2>1
  <2>4. TypeOK'
    BY <1>1, <1>2, <1>5, <2>2, <2>3 DEF handle_idle, IdleToMaker, TypeOK, States, Slot
  <2>5. BookedIffOpen' /\ OrdersMatchState'
    BY <1>1, <1>5, <2>3
    DEF handle_idle, IdleToMaker, Inv, TypeOK, BookedIffOpen, OrdersMatchState, IsOpen
  <2> QED  BY <2>4, <2>5 DEF Inv
<1> QED  BY <1>1, <1>3, <1>4, <1>5 DEF handle_idle

\* handle_taker_eval up to fire() keeps the invariant.
LEMMA TakerBeginKeepsInv ==
    ASSUME Inv, NEW m \in Markets, taker_eval_begin(m) PROVE Inv'
<1> TypeOK  BY DEF Inv
<1>1. TypeOK'
  BY LatchedType DEF taker_eval_begin, Dispatch, TypeOK
<1>2. BookedIffOpen' /\ OrdersMatchState'
  BY DEF taker_eval_begin, Dispatch, Inv, TypeOK, BookedIffOpen, OrdersMatchState, IsOpen
<1> QED  BY <1>1, <1>2 DEF Inv

\* What a taker entry does to the books, and that the accounts stay integers.
FireResult(m) ==
    /\ yes' \in [Markets -> Int] /\ btc' \in [Markets -> Int]
    /\ \/ /\ st' = [st EXCEPT ![m] = "IDLE"]
          /\ UNCHANGED <<pos, sharedVars, closes, cooldown>>
       \/ \E size \in 1..MaxTrade, hedge \in Nat :
          /\ BookOpen(m, size, hedge)
          /\ st' = [st EXCEPT ![m] = "POSITION_OPEN"]
          /\ cooldown' = [cooldown EXCEPT ![m] = TRUE]

\* A taker entry that books does so with a positive number of lots up to the
\* per-trade cap; every failing path of fire() leaves the books alone.
LEMMA FireEffect ==
    ASSUME Inv, NEW m \in Markets, taker_eval_end(m)
    PROVE  FireResult(m)
<1> TypeOK  BY DEF Inv
<1>1. CASE fire_nothing(m)
  BY <1>1 DEF fire_nothing, FireResult, TypeOK
<1>2. CASE fire_error(m)
  <2>1. SUFFICES ASSUME NEW size \in TakerSizes(m), NEW o \in IocOutcomes(size),
             st' = [st EXCEPT ![m] = "IDLE"],
             yes' = [yes EXCEPT ![m] = yes[m] + o.matched],
             UNCHANGED <<pos, sharedVars, btc, closes, cooldown>>
        PROVE  FireResult(m)
    BY <1>2 DEF fire_error
  <2>2. o.matched \in Nat
    BY <2>1, IocType, SizeAssumption DEF TakerSizes
  <2> QED  BY <2>1, <2>2 DEF FireResult, TypeOK
<1>3. CASE fire_leg_fail(m)
  <2>1. PICK size \in TakerSizes(m), q \in HedgeSizes :
          \E o \in IocOutcomes(size), h \in HedgeOutcomes(q) :
            /\ st' = [st EXCEPT ![m] = "IDLE"]
            /\ IF o.id
               THEN \E u \in {x \in IocOutcomes(size) : x.matched \in {0, size}} :
                    yes' = [yes EXCEPT ![m] = yes[m] + o.matched - u.matched]
               ELSE yes' = [yes EXCEPT ![m] = yes[m] + o.matched]
            /\ IF ~o.id /\ HedgeFilled(h.exec, q)
               THEN \E c \in HedgeOutcomes(h.exec) :
                    btc' = [btc EXCEPT ![m] = btc[m] + h.actual - c.actual]
               ELSE btc' = [btc EXCEPT ![m] = btc[m] + h.actual]
            /\ UNCHANGED <<pos, sharedVars, closes, cooldown>>
    BY <1>3 DEF fire_leg_fail
  <2>2. PICK o \in IocOutcomes(size), h \in HedgeOutcomes(q) :
            /\ st' = [st EXCEPT ![m] = "IDLE"]
            /\ \/ yes' = [yes EXCEPT ![m] = yes[m] + o.matched]
               \/ \E u \in IocOutcomes(size) :
                    yes' = [yes EXCEPT ![m] = yes[m] + o.matched - u.matched]
            /\ \/ btc' = [btc EXCEPT ![m] = btc[m] + h.actual]
               \/ \E c \in HedgeOutcomes(h.exec) :
                    btc' = [btc EXCEPT ![m] = btc[m] + h.actual - c.actual]
            /\ UNCHANGED <<pos, sharedVars, closes, cooldown>>
    BY <2>1
  <2>3. size \in Nat /\ q \in Nat
    BY <2>1, SizeAssumption, HedgeAssumption DEF TakerSizes, HedgeSizes
  <2>4. yes' \in [Markets -> Int]
    BY <2>2, <2>3, IocType DEF TypeOK
  <2>5. btc' \in [Markets -> Int]
    <3>1. h.exec \in Nat /\ h.actual \in Nat  BY <2>2, <2>3, HedgeType
    <3>2. \A c \in HedgeOutcomes(h.exec) : c.actual \in Nat  BY <3>1, HedgeType
    <3> QED  BY <2>2, <3>1, <3>2 DEF TypeOK
  <2> QED  BY <2>2, <2>4, <2>5 DEF FireResult
<1>4. CASE fire_success(m)
  <2>1. SUFFICES ASSUME NEW size \in TakerSizes(m), NEW q \in HedgeSizes,
             NEW o \in IocOutcomes(size), NEW h \in HedgeOutcomes(q),
             BookOpen(m, size, h.exec),
             st' = [st EXCEPT ![m] = "POSITION_OPEN"],
             cooldown' = [cooldown EXCEPT ![m] = TRUE],
             yes' = [yes EXCEPT ![m] = yes[m] + o.matched],
             btc' = [btc EXCEPT ![m] = btc[m] + h.actual]
        PROVE  FireResult(m)
    BY <1>4 DEF fire_success
  <2>2. size \in 1..MaxTrade /\ q \in Nat
    BY <2>1, HedgeAssumption DEF TakerSizes, HedgeSizes
  <2>3. o.matched \in Nat /\ h.exec \in Nat /\ h.actual \in Nat
    BY <2>1, <2>2, IocType, HedgeType, SizeAssumption
  <2> QED  BY <2>1, <2>2, <2>3 DEF FireResult, TypeOK
<1> QED  BY <1>1, <1>2, <1>3, <1>4 DEF taker_eval_end

\* Every result of fire() keeps the invariant.
LEMMA TakerEndKeepsInv ==
    ASSUME Inv, NEW m \in Markets, taker_eval_end(m) PROVE Inv'
<1> TypeOK  BY DEF Inv
<1>1. /\ pc[m] = "fire" /\ st[m] = "TAKER_EVAL" /\ ~IsOpen(m)
      /\ pc' = [pc EXCEPT ![m] = "loop"] /\ snap' = [snap EXCEPT ![m] = 0]
      /\ UNCHANGED <<flags, close, quoteVars, controlVars, edges>>
  BY DEF taker_eval_end, NextIteration, Inv, OrdersMatchState, BookedIffOpen
<1>2. yes' \in [Markets -> Int] /\ btc' \in [Markets -> Int]
  BY FireEffect DEF FireResult
<1>3. CASE st' = [st EXCEPT ![m] = "IDLE"] /\ UNCHANGED <<pos, sharedVars, closes, cooldown>>
  <2>1. TypeOK'
    BY <1>1, <1>2, <1>3 DEF TypeOK, States
  <2>2. BookedIffOpen' /\ OrdersMatchState'
    BY <1>1, <1>3 DEF Inv, TypeOK, BookedIffOpen, OrdersMatchState, IsOpen
  <2> QED  BY <2>1, <2>2 DEF Inv
<1>4. ASSUME NEW size \in 1..MaxTrade, NEW hedge \in Nat, BookOpen(m, size, hedge),
             st' = [st EXCEPT ![m] = "POSITION_OPEN"],
             cooldown' = [cooldown EXCEPT ![m] = TRUE]
      PROVE  Inv'
  <2>1. TypeOK'
    BY <1>1, <1>2, <1>4, SizeAssumption DEF TypeOK, States, BookOpen
  <2>2. BookedIffOpen' /\ OrdersMatchState'
    BY <1>1, <1>4, SizeAssumption DEF Inv, TypeOK, BookedIffOpen, OrdersMatchState, IsOpen, BookOpen
  <2> QED  BY <2>1, <2>2 DEF Inv
<1> QED  BY <1>3, <1>4, FireEffect DEF FireResult

\* handle_position_open keeps the invariant.
LEMMA PositionOpenKeepsInv ==
    ASSUME Inv, NEW m \in Markets, handle_position_open(m) PROVE Inv'
<1> TypeOK  BY DEF Inv
<1>1. IsOpen(m) /\ st[m] = "POSITION_OPEN" /\ pc' = [pc EXCEPT ![m] = "loop"]
  BY DEF handle_position_open, Dispatch, Inv, BookedIffOpen, NextIteration
<1>2. flags' \in [Markets -> SUBSET Deadlines]
  BY LatchedType DEF handle_position_open, Dispatch
<1>3. CASE close_position(m)
  <2>1. TypeOK'
    BY <1>1, <1>2, <1>3, ClosePositionEffect DEF handle_position_open, TypeOK, States
  <2>2. /\ UNCHANGED <<pos, cooldown>> /\ st' = [st EXCEPT ![m] = "CLOSING"]
        /\ \A k \in Markets \ {m} : close'[k] = close[k]
    BY <1>1, <1>3, ClosePositionEffect DEF handle_position_open
  <2>3. BookedIffOpen'
    BY <1>1, <2>2 DEF Inv, TypeOK, BookedIffOpen, IsOpen
  <2>4. OrdersMatchState'
    BY <1>1, <2>2 DEF Inv, TypeOK, OrdersMatchState
  <2> QED  BY <2>1, <2>3, <2>4 DEF Inv
<1>4. CASE UNCHANGED <<st, close, accountVars>>
  <2>1. TypeOK'
    BY <1>1, <1>2, <1>4 DEF handle_position_open, TypeOK
  <2>2. BookedIffOpen' /\ OrdersMatchState'
    BY <1>1, <1>4 DEF handle_position_open, Inv, TypeOK, BookedIffOpen, OrdersMatchState, IsOpen
  <2> QED  BY <2>1, <2>2 DEF Inv
<1> QED  BY <1>3, <1>4 DEF handle_position_open

\* With no order id held, manage() cannot report a fill: after the cancel_all of
\* the T-45s deadline, handle_late_fill is never reached.
LEMMA NoLateFill ==
    ASSUME NEW r \in Manage(NoQuotes)
    PROVE  ~Filled(r)
  BY DEF Manage, NoQuotes, Sides, Filled

\* The slots and strays a MAKER_QUOTED step leaves are well formed.
LEMMA QuotedTypes ==
    ASSUME TypeOK, NEW m \in Markets,
           QuotedDeadline(m) \/ QuotedToTaker(m) \/ QuotedManage(m)
    PROVE  /\ quotes' \in [Markets -> [Sides -> Slot]]
           /\ stray' \in [Markets -> [Sides -> Nat]]
<1>1. NoQuotes \in [Sides -> Slot] /\ quotes \in [Markets -> [Sides -> Slot]]
  BY DEF NoQuotes, Slot, TypeOK
<1>2. CASE QuotedDeadline(m)
  <2>1. PICK lost \in LostCancels(quotes[m]), r \in Manage(NoQuotes) :
          /\ quotes' = [quotes EXCEPT ![m] = r.quotes]
          /\ stray' = StrayAfter(m, lost \cup r.left)
    BY <1>2 DEF QuotedDeadline
  <2>2. r.quotes \in [Sides -> Slot]  BY <1>1, ManageType
  <2> QED  BY <1>1, <2>1, <2>2, StrayType
<1>3. CASE QuotedToTaker(m)
  BY <1>1, <1>3, StrayType DEF QuotedToTaker
<1>4. CASE QuotedManage(m)
  <2>1. PICK r \in Manage(quotes[m]) :
          /\ quotes' = [quotes EXCEPT ![m] = r.quotes]
          /\ stray' = StrayAfter(m, r.left)
    BY <1>4 DEF QuotedManage
  <2>2. r.quotes \in [Sides -> Slot]  BY <1>1, ManageType
  <2> QED  BY <1>1, <2>1, <2>2, StrayType
<1> QED  BY <1>2, <1>3, <1>4

\* handle_maker_quoted, late fills included, keeps the invariant.
LEMMA MakerQuotedKeepsInv ==
    ASSUME Inv, NEW m \in Markets, handle_maker_quoted(m) PROVE Inv'
<1> TypeOK  BY DEF Inv
<1>1. /\ ~IsOpen(m) /\ st[m] = "MAKER_QUOTED" /\ pc' = [pc EXCEPT ![m] = "loop"]
      /\ UNCHANGED <<cooldown, snap, controlVars>>
  BY DEF handle_maker_quoted, Dispatch, Inv, BookedIffOpen, NextIteration
<1>2. /\ flags' \in [Markets -> SUBSET Deadlines]
      /\ quotes' \in [Markets -> [Sides -> Slot]]
      /\ stray' \in [Markets -> [Sides -> Nat]]
  BY LatchedType, QuotedTypes DEF handle_maker_quoted, Dispatch
<1>3. CASE QuotedDeadline(m)
  <2>1. st' = [st EXCEPT ![m] = "IDLE"] /\ UNCHANGED <<pos, sharedVars, close, accountVars, edges>>
    BY <1>3, NoLateFill DEF QuotedDeadline
  <2>2. TypeOK'
    BY <1>1, <1>2, <2>1 DEF TypeOK, States, Slot
  <2>3. BookedIffOpen' /\ OrdersMatchState'
    BY <1>1, <2>1 DEF Inv, TypeOK, BookedIffOpen, OrdersMatchState, IsOpen
  <2> QED  BY <2>2, <2>3 DEF Inv
<1>4. CASE QuotedToTaker(m)
  <2>1. TypeOK'
    BY <1>1, <1>2, <1>4 DEF QuotedToTaker, TypeOK, States, Slot
  <2>2. BookedIffOpen' /\ OrdersMatchState'
    BY <1>1, <1>4
    DEF QuotedToTaker, TakerEdge, Inv, TypeOK, BookedIffOpen, OrdersMatchState, IsOpen
  <2> QED  BY <2>1, <2>2 DEF Inv
<1>5. CASE QuotedManage(m)
  <2>1. UNCHANGED <<close, edges>>
    BY <1>5 DEF QuotedManage
  <2>2. ASSUME BookOpen(m, MakerSize, 0), UNCHANGED <<yes, btc>>,
               st' = [st EXCEPT ![m] = "POSITION_OPEN"]
        PROVE  Inv'
    <3>1. TypeOK'
      BY <1>1, <1>2, <2>1, <2>2, SizeAssumption DEF BookOpen, TypeOK, States, Slot
    <3>2. BookedIffOpen' /\ OrdersMatchState'
      BY <1>1, <2>1, <2>2, SizeAssumption
      DEF BookOpen, Inv, TypeOK, BookedIffOpen, OrdersMatchState, IsOpen
    <3> QED  BY <3>1, <3>2 DEF Inv
  <2>3. ASSUME st' = [st EXCEPT ![m] = "IDLE"] \/ st' = st,
               UNCHANGED <<pos, sharedVars, accountVars>>
        PROVE  Inv'
    <3>1. TypeOK'
      BY <1>1, <1>2, <2>1, <2>3 DEF TypeOK, States, Slot
    <3>2. BookedIffOpen' /\ OrdersMatchState'
      BY <1>1, <2>1, <2>3 DEF Inv, TypeOK, BookedIffOpen, OrdersMatchState, IsOpen
    <3> QED  BY <3>1, <3>2 DEF Inv
  <2> QED  BY <1>5, <2>2, <2>3 DEF QuotedManage
<1> QED  BY <1>3, <1>4, <1>5 DEF handle_maker_quoted

\* handle_closing keeps the invariant.
LEMMA ClosingKeepsInv ==
    ASSUME Inv, NEW m \in Markets, handle_closing(m) PROVE Inv'
<1> TypeOK  BY DEF Inv
<1>1. /\ IsOpen(m) /\ st[m] = "CLOSING" /\ pc' = [pc EXCEPT ![m] = "loop"]
      /\ UNCHANGED <<cooldown, snap, quoteVars, controlVars, accountVars, edges>>
  BY DEF handle_closing, Dispatch, Inv, BookedIffOpen, NextIteration
<1>2. flags' \in [Markets -> SUBSET Deadlines]
  BY LatchedType DEF handle_closing, Dispatch
<1>3. CASE BookClose(m) /\ st' = [st EXCEPT ![m] = "IDLE"]
  <2>1. TypeOK'
    BY <1>1, <1>2, <1>3 DEF BookClose, TypeOK, States, NoPosition
  <2>2. BookedIffOpen' /\ OrdersMatchState'
    BY <1>1, <1>3
    DEF BookClose, NoPosition, Inv, TypeOK, BookedIffOpen, OrdersMatchState, IsOpen
  <2> QED  BY <2>1, <2>2 DEF Inv
<1>4. CASE UNCHANGED <<st, pos, sharedVars, close>>
  <2>1. TypeOK'
    BY <1>1, <1>2, <1>4 DEF TypeOK
  <2>2. BookedIffOpen' /\ OrdersMatchState'
    BY <1>1, <1>4 DEF Inv, TypeOK, BookedIffOpen, OrdersMatchState, IsOpen
  <2> QED  BY <2>1, <2>2 DEF Inv
<1> QED  BY <1>3, <1>4 DEF handle_closing

\* The scanner, the watchdog, the clock and the counterparties never disturb
\* the invariant, whatever they interleave with.
LEMMA OutsideKeepsInv ==
    ASSUME Inv, NEW m \in Markets, Outside(m) PROVE Inv'
<1> TypeOK  BY DEF Inv
<1>1. ASSUME NEW d \in Deadlines, notify(m, d) PROVE Inv'
  <2>1. TypeOK'  BY <1>1 DEF notify, TypeOK
  <2>2. BookedIffOpen' /\ OrdersMatchState'
    BY <1>1 DEF notify, Inv, BookedIffOpen, OrdersMatchState, IsOpen
  <2> QED  BY <2>1, <2>2 DEF Inv
<1>2. CASE emergency_flatten(m) \/ stop_machine(m)
  <2>1. TypeOK'  BY <1>2 DEF emergency_flatten, stop_machine, TypeOK
  <2>2. BookedIffOpen' /\ OrdersMatchState'
    BY <1>2 DEF emergency_flatten, stop_machine, Inv, BookedIffOpen, OrdersMatchState, IsOpen
  <2> QED  BY <2>1, <2>2 DEF Inv
<1>3. CASE AdvanceTime(m)
  <2>1. Horizon \in 0..Gone  BY ChoiceAssumption DEF Gone
  <2>2. phase[m] + 1 \in 0..Gone  BY <1>3, <2>1 DEF AdvanceTime, TypeOK, Gone
  <2>3. phase' \in [Markets -> 0..Gone]  BY <1>3, <2>2 DEF AdvanceTime, TypeOK
  <2>4. TypeOK'  BY <1>3, <2>3 DEF AdvanceTime, TypeOK
  <2>5. BookedIffOpen' /\ OrdersMatchState'
    BY <1>3 DEF AdvanceTime, Inv, BookedIffOpen, OrdersMatchState, IsOpen
  <2> QED  BY <2>4, <2>5 DEF Inv
<1>4. CASE CooldownEnds(m)
  <2>1. TypeOK'  BY <1>4 DEF CooldownEnds, TypeOK
  <2>2. BookedIffOpen' /\ OrdersMatchState'
    BY <1>4 DEF CooldownEnds, Inv, TypeOK, BookedIffOpen, OrdersMatchState, IsOpen
  <2> QED  BY <2>1, <2>2 DEF Inv
<1>5. ASSUME NEW s \in Sides, FillQuote(m, s) \/ FillStray(m, s) PROVE Inv'
  <2>1. AfterFill(m, s) \in Int  BY SizeAssumption DEF AfterFill, TypeOK
  <2>2. CASE FillQuote(m, s)
    <3>1. quotes' \in [Markets -> [Sides -> Slot]]
      BY <2>2 DEF FillQuote, TypeOK, Slot
    <3>2. TypeOK'  BY <2>1, <2>2, <3>1 DEF FillQuote, TypeOK, Slot
    <3>3. BookedIffOpen' /\ OrdersMatchState'
      BY <2>2 DEF FillQuote, Inv, BookedIffOpen, OrdersMatchState, IsOpen
    <3> QED  BY <3>2, <3>3 DEF Inv
  <2>3. CASE FillStray(m, s)
    <3>1. stray' \in [Markets -> [Sides -> Nat]]
      BY <2>3 DEF FillStray, TypeOK
    <3>2. TypeOK'  BY <2>1, <2>3, <3>1 DEF FillStray, TypeOK
    <3>3. BookedIffOpen' /\ OrdersMatchState'
      BY <2>3 DEF FillStray, Inv, BookedIffOpen, OrdersMatchState, IsOpen
    <3> QED  BY <3>2, <3>3 DEF Inv
  <2> QED  BY <1>5, <2>2, <2>3
<1> QED  BY <1>1, <1>2, <1>3, <1>4, <1>5 DEF Outside

\* Every step keeps the invariant.
LEMMA InvStep ==
    ASSUME Inv, [Next]_vars
    PROVE  Inv'
<1>1. CASE UNCHANGED vars
  BY <1>1 DEF Inv, TypeOK, BookedIffOpen, OrdersMatchState, IsOpen
<1>2. ASSUME NEW m \in Markets, Thread(m) PROVE Inv'
  BY <1>2, StopKeepsInv, FlattenKeepsInv, ExpiredKeepsInv, IdleKeepsInv,
     TakerBeginKeepsInv, TakerEndKeepsInv, PositionOpenKeepsInv,
     MakerQuotedKeepsInv, ClosingKeepsInv DEF Thread
<1> QED  BY <1>1, <1>2, OutsideKeepsInv DEF Next

\* The inductive invariant holds for any number of machines.
THEOREM Invariance == Spec => []Inv
  BY InitInv, InvStep, PTL DEF Spec

\* Every variable of every machine keeps its type, counters included.
THEOREM TypeCorrect == Spec => []TypeOK
  BY Invariance, PTL DEF Inv

\* A position is booked exactly in POSITION_OPEN and CLOSING, in every market.
THEOREM PositionsBooked == Spec => []BookedIffOpen
  BY Invariance, PTL DEF Inv

\* Entries in flight, cooldowns and close order ids always match the state.
THEOREM OrdersTracked == Spec => []OrdersMatchState
  BY Invariance, PTL DEF Inv

-----------------------------------------------------------------------------
(* The machines implement the position ledger.                             *)

Held == [m \in Markets |-> pos[m].size]

\* Booking a position in a market without one is the ledger's Open.
LEMMA BookOpenIsOpen ==
    ASSUME TypeOK, NEW m \in Markets, ~IsOpen(m),
           NEW size \in 1..(MaxTrade + MakerSize), NEW hedge, BookOpen(m, size, hedge)
    PROVE  Ledger!Next
<1>1. pos[m].size = 0 /\ size \in Nat \ {0}
  BY SizeAssumption DEF IsOpen, TypeOK
<1>2. Held' = [Held EXCEPT ![m] = size]
  BY DEF BookOpen, Held, TypeOK
<1>3. Ledger!Open(m, size)
  BY <1>1, <1>2 DEF Ledger!Open, BookOpen, Held
<1> QED  BY <1>3 DEF Ledger!Next

\* Releasing an open position is the ledger's Close.
LEMMA BookCloseIsClose ==
    ASSUME TypeOK, NEW m \in Markets, IsOpen(m), BookClose(m)
    PROVE  Ledger!Next
<1>1. Held' = [Held EXCEPT ![m] = 0]
  BY DEF BookClose, Held, TypeOK, NoPosition
<1>2. Ledger!Close(m)
  BY <1>1 DEF Ledger!Close, BookClose, Held, IsOpen
<1> QED  BY <1>2 DEF Ledger!Next

\* A step that leaves the books alone is a stuttering step of the ledger.
LEMMA Stutter ==
    ASSUME UNCHANGED <<pos, count, exposure>>
    PROVE  UNCHANGED Ledger!ledgerVars
  BY DEF Ledger!ledgerVars

\* Every step of a machine is a step of the ledger or leaves it unchanged.
LEMMA BooksStep ==
    ASSUME Inv, [Next]_vars
    PROVE  [Ledger!Next]_(Ledger!ledgerVars)
<1> TypeOK  BY DEF Inv
<1>1. CASE UNCHANGED vars
  BY <1>1, Stutter
<1>2. ASSUME NEW m \in Markets, Outside(m) PROVE UNCHANGED Ledger!ledgerVars
  <2>1. UNCHANGED <<pos, count, exposure>>
    BY <1>2 DEF Outside, notify, emergency_flatten, stop_machine, AdvanceTime,
                CooldownEnds, FillQuote, FillStray
  <2> QED  BY <2>1, Stutter
<1>3. ASSUME NEW m \in Markets, Thread(m) PROVE [Ledger!Next]_(Ledger!ledgerVars)
  <2>1. CASE run_stop(m) \/ run_flatten(m) \/ evaluate_expired(m) \/ handle_idle(m)
             \/ taker_eval_begin(m) \/ handle_position_open(m)
    <3>1. UNCHANGED <<pos, count, exposure>>
      BY <2>1 DEF run_stop, run_flatten, evaluate_expired, handle_idle,
                  taker_eval_begin, handle_position_open
    <3> QED  BY <3>1, Stutter
  <2>2. CASE taker_eval_end(m)
    <3>1. ~IsOpen(m)
      BY <2>2 DEF taker_eval_end, Inv, OrdersMatchState, BookedIffOpen
    <3>2. CASE UNCHANGED <<pos, sharedVars>>
      BY <3>2, Stutter
    <3>3. ASSUME NEW size \in 1..MaxTrade, NEW hedge \in Nat, BookOpen(m, size, hedge)
          PROVE  Ledger!Next
      <4>1. size \in 1..(MaxTrade + MakerSize)  BY SizeAssumption
      <4> QED  BY <3>1, <3>3, <4>1, BookOpenIsOpen
    <3> QED  BY <2>2, <3>2, <3>3, FireEffect DEF FireResult
  <2>3. CASE handle_maker_quoted(m)
    <3>1. ~IsOpen(m)
      BY <2>3 DEF handle_maker_quoted, Dispatch, Inv, BookedIffOpen
    <3>2. CASE UNCHANGED <<pos, sharedVars>>
      BY <3>2, Stutter
    <3>3. CASE BookOpen(m, MakerSize, 0)
      <4>1. MakerSize \in 1..(MaxTrade + MakerSize)  BY SizeAssumption
      <4> QED  BY <3>1, <3>3, <4>1, BookOpenIsOpen
    <3> QED
      BY <2>3, <3>2, <3>3, NoLateFill
      DEF handle_maker_quoted, QuotedDeadline, QuotedToTaker, QuotedManage
  <2>4. CASE handle_closing(m)
    <3>1. IsOpen(m)
      BY <2>4 DEF handle_closing, Dispatch, Inv, BookedIffOpen
    <3>2. CASE UNCHANGED <<pos, sharedVars>>
      BY <3>2, Stutter
    <3>3. CASE BookClose(m)
      BY <3>1, <3>3, BookCloseIsClose
    <3> QED  BY <2>4, <3>2, <3>3 DEF handle_closing
  <2> QED  BY <1>3, <2>1, <2>2, <2>3, <2>4 DEF Thread
<1> QED  BY <1>1, <1>2, <1>3 DEF Next

\* The books are empty at first.
LEMMA LedgerInit == Init => Ledger!Init
  BY DEF Init, Ledger!Init, NoPosition

\* Whatever the exchanges and the other threads do, the machines together keep
\* one position per market and move the global counters with the positions.
THEOREM ImplementsLedger == Spec => Books
<1>1. Init => Ledger!Init
  BY LedgerInit
<1>2. Inv /\ [Next]_vars => [Ledger!Next]_(Ledger!ledgerVars)
  BY BooksStep
<1> QED  BY <1>1, <1>2, Invariance, PTL DEF Spec, Books, Ledger!Spec

-----------------------------------------------------------------------------
(* open_position_count is the number of open positions.                    *)

OpenMarkets == {m \in Markets : IsOpen(m)}

\* A ledger step moves the counter and the set of open markets together.
LEMMA CountStep ==
    ASSUME TypeOK, TypeOK', CountIsOpen, [Ledger!Next]_(Ledger!ledgerVars)
    PROVE  CountIsOpen'
<1>1. /\ IsFiniteSet(OpenMarkets) /\ IsFiniteSet(OpenMarkets')
      /\ count = Cardinality(OpenMarkets)
  BY MarketsFinite, FS_Subset DEF OpenMarkets, CountIsOpen
<1>2. \A k \in Markets : Held[k] = pos[k].size /\ Held'[k] = pos'[k].size
  BY DEF Held
<1>3. ASSUME NEW m \in Markets, NEW size \in 1..(MaxTrade + MakerSize), Ledger!Open(m, size)
      PROVE  count' = Cardinality(OpenMarkets')
  <2>1. /\ Held[m] = 0 /\ Held' = [Held EXCEPT ![m] = size]
        /\ size \in Nat \ {0} /\ count' = count + 1
    BY <1>3 DEF Ledger!Open, Held
  <2>2. m \notin OpenMarkets
    BY <1>2, <2>1 DEF OpenMarkets, IsOpen
  <2>3. OpenMarkets' = OpenMarkets \cup {m}
    <3>1. \A k \in Markets : pos'[k].size = IF k = m THEN size ELSE pos[k].size
      <4>1. \A k \in Markets : Held'[k] = IF k = m THEN size ELSE Held[k]
        BY <2>1, Zenon DEF Held
      <4> QED  BY <1>2, <4>1
    <3> QED  BY <2>1, <3>1 DEF OpenMarkets, IsOpen
  <2>4. Cardinality(OpenMarkets') = Cardinality(OpenMarkets) + 1
    BY <1>1, <2>2, <2>3, FS_AddElement
  <2> QED  BY <1>1, <2>1, <2>4
<1>4. ASSUME NEW m \in Markets, Ledger!Close(m)
      PROVE  count' = Cardinality(OpenMarkets')
  <2>1. /\ Held[m] > 0 /\ Held' = [Held EXCEPT ![m] = 0]
        /\ count' = count - 1
    BY <1>4 DEF Ledger!Close, Held
  <2>2. m \in OpenMarkets
    BY <1>2, <2>1 DEF OpenMarkets, IsOpen
  <2>3. OpenMarkets' = OpenMarkets \ {m}
    <3>1. \A k \in Markets : pos'[k].size = IF k = m THEN 0 ELSE pos[k].size
      <4>1. \A k \in Markets : Held'[k] = IF k = m THEN 0 ELSE Held[k]
        BY <2>1, Zenon DEF Held
      <4> QED  BY <1>2, <4>1
    <3> QED  BY <2>1, <3>1 DEF OpenMarkets, IsOpen
  <2>4. Cardinality(OpenMarkets') = Cardinality(OpenMarkets) - 1
    BY <1>1, <2>2, <2>3, FS_RemoveElement
  <2> QED  BY <1>1, <2>1, <2>4
<1>5. ASSUME UNCHANGED Ledger!ledgerVars
      PROVE  count' = Cardinality(OpenMarkets')
  <2>1. Held' = Held /\ count' = count
    BY <1>5 DEF Ledger!ledgerVars, Held
  <2>2. OpenMarkets' = OpenMarkets
    BY <1>2, <2>1 DEF OpenMarkets, IsOpen
  <2> QED  BY <1>1, <2>1, <2>2
<1> QED  BY <1>3, <1>4, <1>5 DEF Ledger!Next, CountIsOpen, OpenMarkets

\* No position is open at first.
LEMMA CountInit ==
    ASSUME Init
    PROVE  CountIsOpen
<1>1. {m \in Markets : IsOpen(m)} = {}
  BY DEF Init, IsOpen, NoPosition
<1> QED  BY <1>1, FS_EmptySet DEF CountIsOpen, Init

\* The counter that every machine consults before an entry is exact: no
\* interleaving of fills, flattens, expiries and failed orders makes it drift.
THEOREM CountExact == Spec => []CountIsOpen
<1>1. Init => CountIsOpen
  BY CountInit
<1>2. Inv /\ Inv' /\ CountIsOpen /\ [Next]_vars => CountIsOpen'
  BY BooksStep, CountStep DEF Inv
<1> QED  BY <1>1, <1>2, Invariance, PTL DEF Spec

-----------------------------------------------------------------------------
(* total_exposure_usdc is the sum of the open positions.                   *)

Lots(m, n) == {m} \X (1..n)

\* A position of n lots.
LEMMA LotsCount ==
    ASSUME NEW m \in Markets, NEW n \in Nat
    PROVE  IsFiniteSet(Lots(m, n)) /\ Cardinality(Lots(m, n)) = n
<1>1. IsFiniteSet({m}) /\ Cardinality({m}) = 1
  BY FS_Singleton
<1>2. IsFiniteSet(1..n) /\ Cardinality(1..n) = n
  BY FS_Interval
<1>3. IsFiniteSet({m} \X (1..n)) /\ Cardinality({m} \X (1..n)) = Cardinality({m}) * Cardinality(1..n)
  BY <1>1, <1>2, FS_Product
<1> QED  BY <1>1, <1>2, <1>3 DEF Lots

\* The lots of the books are those of the markets, and no two markets share one.
LEMMA LotsOfMarkets ==
    /\ \A m \in Markets : Lots(m, pos[m].size) \subseteq BookedLots
    /\ \A l \in BookedLots : \E m \in Markets : l \in Lots(m, pos[m].size)
    /\ \A m, k \in Markets, i, j \in Nat : m # k => Lots(m, i) \cap Lots(k, j) = {}
<1>1. BookedLots = UNION {Lots(m, pos[m].size) : m \in Markets}
  BY DEF BookedLots, Lots
<1>2. ASSUME NEW m \in Markets, NEW k \in Markets, NEW i \in Nat, NEW j \in Nat, m # k
      PROVE  Lots(m, i) \cap Lots(k, j) = {}
  BY <1>2 DEF Lots
<1> QED  BY <1>1, <1>2

LotsInv == IsFiniteSet(BookedLots) /\ exposure = Cardinality(BookedLots)

\* A ledger step moves the exposure by the lots of the position it moves.
LEMMA LotsStep ==
    ASSUME TypeOK, TypeOK', LotsInv, [Ledger!Next]_(Ledger!ledgerVars)
    PROVE  LotsInv'
<1>1. \A k \in Markets : Held[k] = pos[k].size /\ Held'[k] = pos'[k].size /\ pos[k].size \in Nat
  BY DEF Held, TypeOK
<1>2. /\ \A m \in Markets : Lots(m, pos'[m].size) \subseteq BookedLots'
      /\ \A l \in BookedLots' : \E m \in Markets : l \in Lots(m, pos'[m].size)
  <2>1. BookedLots' = UNION {Lots(m, pos'[m].size) : m \in Markets}
    BY DEF BookedLots, Lots
  <2> QED  BY <2>1
<1>3. ASSUME NEW m \in Markets, NEW size \in 1..(MaxTrade + MakerSize), Ledger!Open(m, size)
      PROVE  LotsInv'
  <2>1. /\ Held[m] = 0 /\ Held' = [Held EXCEPT ![m] = size]
        /\ size \in Nat \ {0} /\ exposure' = exposure + size
    BY <1>3 DEF Ledger!Open, Held
  <2>2. \A k \in Markets : pos'[k].size = IF k = m THEN size ELSE pos[k].size
    <3>1. \A k \in Markets : Held'[k] = IF k = m THEN size ELSE Held[k]
      BY <2>1, Zenon DEF Held
    <3> QED  BY <1>1, <3>1
  <2>3. Lots(m, pos[m].size) = {}
    BY <1>1, <2>1 DEF Lots
  <2>4. BookedLots' = BookedLots \cup Lots(m, size)
    BY <1>1, <1>2, <2>2, <2>3, LotsOfMarkets
  <2>5. BookedLots \cap Lots(m, size) = {}
    BY <1>1, <2>1, <2>3, LotsOfMarkets
  <2>6. IsFiniteSet(Lots(m, size)) /\ Cardinality(Lots(m, size)) = size
    BY <2>1, LotsCount
  <2>7. IsFiniteSet(BookedLots') /\ Cardinality(BookedLots') =
           Cardinality(BookedLots) + Cardinality(Lots(m, size)) - Cardinality({})
    BY <2>4, <2>5, <2>6, FS_Union DEF LotsInv
  <2>8. Cardinality({}) = 0 /\ exposure \in Int
    BY FS_EmptySet DEF TypeOK
  <2> QED  BY <2>1, <2>6, <2>7, <2>8 DEF LotsInv
<1>4. ASSUME NEW m \in Markets, Ledger!Close(m)
      PROVE  LotsInv'
  <2>1. /\ Held[m] > 0 /\ Held' = [Held EXCEPT ![m] = 0]
        /\ exposure' = exposure - Held[m]
    BY <1>4 DEF Ledger!Close, Held
  <2>2. \A k \in Markets : pos'[k].size = IF k = m THEN 0 ELSE pos[k].size
    <3>1. \A k \in Markets : Held'[k] = IF k = m THEN 0 ELSE Held[k]
      BY <2>1, Zenon DEF Held
    <3> QED  BY <1>1, <3>1
  <2> DEFINE L == Lots(m, pos[m].size)
  <2>3. Lots(m, 0) = {}
    BY DEF Lots
  <2>4. BookedLots' = BookedLots \ L
    BY <1>1, <1>2, <2>2, <2>3, LotsOfMarkets
  <2>5. BookedLots \cap L = L
    BY LotsOfMarkets
  <2>6. Cardinality(L) = pos[m].size
    BY <1>1, LotsCount
  <2>7. IsFiniteSet(BookedLots') /\ Cardinality(BookedLots') = Cardinality(BookedLots) - Cardinality(L)
    <3>1. /\ IsFiniteSet(BookedLots \ L)
          /\ Cardinality(BookedLots \ L) = Cardinality(BookedLots) - Cardinality(BookedLots \cap L)
      BY FS_Difference DEF LotsInv
    <3> HIDE DEF L
    <3> QED  BY <2>4, <2>5, <3>1
  <2> QED  BY <1>1, <2>1, <2>6, <2>7 DEF LotsInv
<1>5. ASSUME UNCHANGED Ledger!ledgerVars
      PROVE  LotsInv'
  <2>1. Held' = Held /\ exposure' = exposure
    BY <1>5 DEF Ledger!ledgerVars, Held
  <2>2. \A k \in Markets : pos'[k].size = pos[k].size
    BY <1>1, <2>1
  <2>3. \A k \in Markets : Lots(k, pos'[k].size) = Lots(k, pos[k].size)
    BY <2>2
  <2>4. BookedLots' \subseteq BookedLots
    BY <1>2, <2>3, LotsOfMarkets, Zenon
  <2>5. BookedLots \subseteq BookedLots'
    BY <1>2, <2>3, LotsOfMarkets, Zenon
  <2> QED  BY <2>1, <2>4, <2>5 DEF LotsInv
<1> QED  BY <1>3, <1>4, <1>5 DEF Ledger!Next

\* No lot is booked at first.
LEMMA LotsInit ==
    ASSUME Init
    PROVE  LotsInv
<1>1. \A m \in Markets : pos[m].size = 0
  BY DEF Init, NoPosition
<1>2. \A m \in Markets : Lots(m, pos[m].size) = {}
  BY <1>1 DEF Lots
<1>3. BookedLots = {}
  BY <1>2, LotsOfMarkets
<1> QED  BY <1>3, FS_EmptySet DEF LotsInv, Init

\* The exposure that caps every entry is exact: it is the sum of the open
\* positions and never drifts from it, so it is 0 again when all are closed.
THEOREM ExposureExact == Spec => []ExposureIsBooked
<1>1. Init => LotsInv
  BY LotsInit
<1>2. Inv /\ Inv' /\ LotsInv /\ [Next]_vars => LotsInv'
  BY BooksStep, LotsStep DEF Inv
<1>3. LotsInv => ExposureIsBooked
  BY DEF LotsInv, ExposureIsBooked
<1> QED  BY <1>1, <1>2, <1>3, Invariance, PTL DEF Spec

-----------------------------------------------------------------------------
(* What a step may never do, for any number of machines.                   *)

\* A step of machine m leaves every other machine alone.
FrameOf(m) ==
    \A k \in Markets \ {m} :
        /\ st'[k] = st[k] /\ pos'[k] = pos[k] /\ flags'[k] = flags[k]
        /\ quotes'[k] = quotes[k] /\ closes'[k] = closes[k]

\* close_position touches the state and the close orders of its market only.
LEMMA ClosePositionFrame ==
    ASSUME TypeOK, NEW m \in Markets, close_position(m)
    PROVE  \A k \in Markets \ {m} : st'[k] = st[k] /\ closes'[k] = closes[k]
  BY DEF close_position, SubmitClose, TypeOK

\* No machine writes what another machine owns.
LEMMA Frame ==
    ASSUME Inv, NEW m \in Markets, Thread(m) \/ Outside(m)
    PROVE  FrameOf(m)
<1> TypeOK  BY DEF Inv
<1>1. CASE run_stop(m) \/ taker_eval_begin(m) \/ Outside(m)
  BY <1>1 DEF run_stop, taker_eval_begin, Dispatch, Outside, notify, emergency_flatten,
     stop_machine, AdvanceTime, CooldownEnds, FillQuote, FillStray, FrameOf, TypeOK
<1>2. CASE run_flatten(m)
  BY <1>2, ClosePositionFrame DEF run_flatten, FrameOf
<1>3. CASE evaluate_expired(m)
  BY <1>3, ClosePositionFrame DEF evaluate_expired, FrameOf, TypeOK
<1>4. CASE handle_idle(m)
  <2>1. ~IsOpen(m)
    BY <1>4 DEF handle_idle, Dispatch, Inv, BookedIffOpen
  <2> QED
    BY <1>4, <2>1
    DEF handle_idle, Dispatch, StayIdle, IdleToTaker, IdleToMaker, FrameOf, TypeOK
<1>5. CASE taker_eval_end(m)
  <2>1. UNCHANGED <<flags, quotes>>
    BY <1>5 DEF taker_eval_end
  <2>2. CASE st' = [st EXCEPT ![m] = "IDLE"] /\ UNCHANGED <<pos, closes>>
    BY <2>1, <2>2 DEF FrameOf, TypeOK
  <2>3. ASSUME NEW size, NEW hedge, BookOpen(m, size, hedge),
               st' = [st EXCEPT ![m] = "POSITION_OPEN"]
        PROVE  FrameOf(m)
    BY <2>1, <2>3 DEF BookOpen, FrameOf, TypeOK
  <2> QED  BY <1>5, <2>2, <2>3, FireEffect DEF FireResult
<1>6. CASE handle_position_open(m)
  BY <1>6, ClosePositionFrame DEF handle_position_open, Dispatch, FrameOf, TypeOK
<1>7. CASE handle_maker_quoted(m)
  <2>1. \A k \in Markets \ {m} : flags'[k] = flags[k]
    BY <1>7 DEF handle_maker_quoted, Dispatch, TypeOK
  <2>2. CASE QuotedDeadline(m)
    BY <2>1, <2>2, NoLateFill DEF QuotedDeadline, FrameOf, TypeOK
  <2>3. CASE QuotedToTaker(m)
    BY <2>1, <2>3 DEF QuotedToTaker, FrameOf, TypeOK
  <2>4. CASE QuotedManage(m)
    BY <2>1, <2>4 DEF QuotedManage, BookOpen, FrameOf, TypeOK
  <2> QED  BY <1>7, <2>2, <2>3, <2>4 DEF handle_maker_quoted
<1>8. CASE handle_closing(m)
  BY <1>8 DEF handle_closing, Dispatch, BookClose, FrameOf, TypeOK
<1> QED  BY <1>1, <1>2, <1>3, <1>4, <1>5, <1>6, <1>7, <1>8 DEF Thread

\* A position whose exit orders have not been sent has sent none.
OpenUnclosed == \A m \in Markets : st[m] = "POSITION_OPEN" => closes[m] = 0

\* Entering POSITION_OPEN starts a new count of close orders; every close order
\* leaves POSITION_OPEN.
LEMMA UnclosedStep ==
    ASSUME Inv, OpenUnclosed, [Next]_vars PROVE OpenUnclosed'
<1> TypeOK  BY DEF Inv
<1>1. ASSUME NEW m \in Markets, Thread(m) \/ Outside(m), st'[m] = "POSITION_OPEN"
      PROVE  closes'[m] = 0
  <2>1. CASE run_stop(m) \/ taker_eval_begin(m) \/ Outside(m)
    BY <1>1, <2>1 DEF run_stop, taker_eval_begin, Outside, notify, emergency_flatten,
       stop_machine, AdvanceTime, CooldownEnds, FillQuote, FillStray, OpenUnclosed
  <2>2. CASE close_position(m)
    BY <1>1, <2>2, ClosePositionEffect DEF TypeOK
  <2>3. CASE UNCHANGED <<st, accountVars>>
    BY <1>1, <2>3 DEF OpenUnclosed
  <2>4. CASE run_flatten(m) \/ evaluate_expired(m) \/ handle_position_open(m)
    BY <2>2, <2>3, <2>4 DEF run_flatten, evaluate_expired, handle_position_open
  <2>5. CASE handle_idle(m)
    BY <1>1, <2>2, <2>5 DEF handle_idle, Dispatch, StayIdle, IdleToTaker, IdleToMaker, TypeOK
  <2>6. CASE taker_eval_end(m)
    <3>1. CASE st' = [st EXCEPT ![m] = "IDLE"]
      BY <1>1, <3>1 DEF TypeOK
    <3>2. ASSUME NEW size, NEW hedge, BookOpen(m, size, hedge) PROVE closes'[m] = 0
      BY <3>2 DEF BookOpen, TypeOK
    <3> QED  BY <2>6, <3>1, <3>2, FireEffect DEF FireResult
  <2>7. CASE handle_maker_quoted(m)
    <3>1. st[m] = "MAKER_QUOTED"
      BY <2>7 DEF handle_maker_quoted, Dispatch
    <3>2. CASE BookOpen(m, MakerSize, 0)
      BY <3>2 DEF BookOpen, TypeOK
    <3>3. CASE st' = [st EXCEPT ![m] = "IDLE"] \/ st' = st \/ st' = [st EXCEPT ![m] = "TAKER_EVAL"]
      BY <1>1, <3>1, <3>3 DEF TypeOK
    <3> QED
      BY <2>7, <3>2, <3>3, NoLateFill
      DEF handle_maker_quoted, QuotedDeadline, QuotedToTaker, QuotedManage
  <2>8. CASE handle_closing(m)
    BY <1>1, <2>8 DEF handle_closing, Dispatch, TypeOK
  <2> QED  BY <1>1, <2>1, <2>4, <2>5, <2>6, <2>7, <2>8 DEF Thread
<1>2. CASE UNCHANGED vars
  BY <1>2 DEF OpenUnclosed
<1>3. ASSUME NEW m \in Markets, Thread(m) \/ Outside(m) PROVE OpenUnclosed'
  BY <1>1, <1>3, Frame DEF FrameOf, OpenUnclosed
<1> QED  BY <1>2, <1>3 DEF Next

\* Close orders are sent by a flatten request, after resolution, or from
\* POSITION_OPEN.
LEMMA CloseOrderCauses ==
    ASSUME Inv, NEW m \in Markets, Thread(m) \/ Outside(m), closes'[m] > closes[m]
    PROVE  flatten[m] \/ phase[m] >= Expired \/ st[m] = "POSITION_OPEN"
<1> TypeOK  BY DEF Inv
<1>1. closes[m] \in Nat
  BY DEF TypeOK
<1>2. CASE run_stop(m) \/ taker_eval_begin(m) \/ handle_closing(m) \/ Outside(m)
  BY <1>1, <1>2 DEF run_stop, taker_eval_begin, handle_closing, Outside, notify,
     emergency_flatten, stop_machine, AdvanceTime, CooldownEnds, FillQuote, FillStray
<1>3. CASE run_flatten(m) \/ evaluate_expired(m) \/ handle_position_open(m)
  BY <1>3 DEF run_flatten, evaluate_expired, handle_position_open, Dispatch
<1>4. CASE handle_idle(m)
  <2>1. ~IsOpen(m)
    BY <1>4 DEF handle_idle, Dispatch, Inv, BookedIffOpen
  <2> QED  BY <1>1, <1>4, <2>1 DEF handle_idle, StayIdle, IdleToTaker, IdleToMaker
<1>5. ASSUME NEW size, NEW hedge, BookOpen(m, size, hedge) PROVE FALSE
  BY <1>1, <1>5 DEF BookOpen, TypeOK
<1>6. CASE taker_eval_end(m)
  BY <1>1, <1>5, <1>6, FireEffect DEF FireResult
<1>7. CASE handle_maker_quoted(m)
  <2>1. CASE QuotedDeadline(m)
    BY <1>1, <2>1, NoLateFill DEF QuotedDeadline
  <2>2. CASE QuotedToTaker(m)
    BY <1>1, <2>2 DEF QuotedToTaker
  <2>3. CASE QuotedManage(m)
    BY <1>1, <1>5, <2>3 DEF QuotedManage
  <2> QED  BY <1>7, <2>1, <2>2, <2>3 DEF handle_maker_quoted
<1> QED  BY <1>2, <1>3, <1>4, <1>6, <1>7 DEF Thread

OnceStep ==
    \A m \in Markets :
        closes'[m] > closes[m] /\ closes[m] > 0 => flatten[m] \/ phase[m] >= Expired

\* A second close order has a cause: the first came from the exit of POSITION_OPEN.
LEMMA OnceHolds == Inv /\ OpenUnclosed /\ [Next]_vars => [OnceStep]_vars
<1>1. ASSUME Inv, OpenUnclosed, [Next]_vars PROVE [OnceStep]_vars
  <2>1. CASE UNCHANGED vars
    BY <2>1
  <2>2. ASSUME NEW m \in Markets, Thread(m) \/ Outside(m) PROVE OnceStep
    <3>1. SUFFICES ASSUME NEW k \in Markets, closes'[k] > closes[k], closes[k] > 0
                   PROVE  flatten[k] \/ phase[k] >= Expired
      BY DEF OnceStep
    <3>2. closes[k] \in Nat
      BY <1>1 DEF Inv, TypeOK
    <3>3. k = m
      BY <1>1, <2>2, <3>1, <3>2, Frame DEF FrameOf
    <3> QED  BY <1>1, <2>2, <3>1, <3>2, <3>3, CloseOrderCauses DEF OpenUnclosed
  <2> QED  BY <1>1, <2>1, <2>2 DEF Next
<1> QED  BY <1>1

LEMMA UnclosedInit == Init => OpenUnclosed
  BY DEF Init, OpenUnclosed

\* The ordinary exits never sell a position twice: the invariant that is missing
\* is that a machine in POSITION_OPEN has sent no close order yet.
THEOREM NeverSoldTwice == Spec => ClosedOnce
  BY UnclosedInit, UnclosedStep, OnceHolds, Invariance, PTL DEF Spec, ClosedOnce, OnceStep

\* A failing entry changes the account of its market by at most one trade, and
\* its hedge by at most one leg.
LEMMA FailedEntryEffect ==
    ASSUME Inv, NEW m \in Markets, taker_eval_end(m), st'[m] = "IDLE"
    PROVE  /\ pos' = pos /\ count' = count /\ exposure' = exposure
           /\ yes'[m] - yes[m] \in -MaxTrade..MaxTrade
           /\ \E q \in Hedges \cup {0} : btc'[m] - btc[m] \in 0..FmtQty(q)
<1> TypeOK  BY DEF Inv
<1> DEFINE Bounded == /\ yes'[m] - yes[m] \in -MaxTrade..MaxTrade
                      /\ \E q \in Hedges \cup {0} : btc'[m] - btc[m] \in 0..FmtQty(q)
<1>1. yes[m] \in Int /\ btc[m] \in Int /\ MaxTrade \in Nat
  BY SizeAssumption DEF TypeOK
<1>0. btc' = btc => \E q \in Hedges \cup {0} : btc'[m] - btc[m] \in 0..FmtQty(q)
  <2>1. FmtQty(0) \in Nat  BY FmtQtyType
  <2>2. ASSUME btc' = btc PROVE btc'[m] - btc[m] \in 0..FmtQty(0)
    BY <1>1, <2>1, <2>2
  <2> QED  BY <2>2
<1>2. \A size \in TakerSizes(m) : size \in Nat /\ size <= MaxTrade
  BY SizeAssumption DEF TakerSizes
<1>3. ~fire_success(m)
  BY DEF fire_success, TypeOK
<1>4. CASE fire_nothing(m)
  <2>1. Bounded  BY <1>0, <1>1, <1>4 DEF fire_nothing
  <2> QED  BY <1>4, <2>1 DEF fire_nothing
<1>5. CASE fire_error(m)
  <2>1. PICK size \in TakerSizes(m) : \E o \in IocOutcomes(size) :
          yes' = [yes EXCEPT ![m] = yes[m] + o.matched]
    BY <1>5 DEF fire_error
  <2>2. PICK o \in IocOutcomes(size) : yes' = [yes EXCEPT ![m] = yes[m] + o.matched]
    BY <2>1
  <2>3. o.matched \in 0..MaxTrade
    BY <1>1, <1>2, <2>1, <2>2, IocType
  <2>4. yes'[m] = yes[m] + o.matched /\ btc' = btc
    BY <1>5, <2>2 DEF fire_error, TypeOK
  <2>5. Bounded  BY <1>0, <1>1, <2>3, <2>4
  <2> QED  BY <1>5, <2>5 DEF fire_error
<1>6. CASE fire_leg_fail(m)
  <2>1. PICK size \in TakerSizes(m), q \in HedgeSizes :
          \E o \in IocOutcomes(size), h \in HedgeOutcomes(q) :
            /\ \/ yes' = [yes EXCEPT ![m] = yes[m] + o.matched]
               \/ \E u \in IocOutcomes(size) :
                    yes' = [yes EXCEPT ![m] = yes[m] + o.matched - u.matched]
            /\ IF ~o.id /\ HedgeFilled(h.exec, q)
               THEN \E c \in HedgeOutcomes(h.exec) :
                    btc' = [btc EXCEPT ![m] = btc[m] + h.actual - c.actual]
               ELSE btc' = [btc EXCEPT ![m] = btc[m] + h.actual]
    BY <1>6 DEF fire_leg_fail
  <2>2. PICK o \in IocOutcomes(size), h \in HedgeOutcomes(q) :
            /\ \/ yes' = [yes EXCEPT ![m] = yes[m] + o.matched]
               \/ \E u \in IocOutcomes(size) :
                    yes' = [yes EXCEPT ![m] = yes[m] + o.matched - u.matched]
            /\ \/ btc' = [btc EXCEPT ![m] = btc[m] + h.actual]
               \/ /\ HedgeFilled(h.exec, q)
                  /\ \E c \in HedgeOutcomes(h.exec) :
                       btc' = [btc EXCEPT ![m] = btc[m] + h.actual - c.actual]
    BY <2>1
  <2>3. \A x \in IocOutcomes(size) : x.matched \in 0..MaxTrade
    <3>1. \A x \in IocOutcomes(size) : x.matched \in 0..size
      BY <1>2, <2>1, IocType
    <3>2. size \in Nat /\ size <= MaxTrade
      BY <1>2, <2>1
    <3> QED  BY <1>1, <3>1, <3>2
  <2>4. yes'[m] - yes[m] \in -MaxTrade..MaxTrade
    <3>1. CASE yes' = [yes EXCEPT ![m] = yes[m] + o.matched]
      <4>1. yes'[m] = yes[m] + o.matched /\ o.matched \in 0..MaxTrade
        BY <2>2, <2>3, <3>1 DEF TypeOK
      <4> QED  BY <1>1, <4>1
    <3>2. ASSUME NEW u \in IocOutcomes(size),
                 yes' = [yes EXCEPT ![m] = yes[m] + o.matched - u.matched]
          PROVE  yes'[m] - yes[m] \in -MaxTrade..MaxTrade
      <4>1. /\ yes'[m] = yes[m] + o.matched - u.matched
            /\ o.matched \in 0..MaxTrade /\ u.matched \in 0..MaxTrade
        BY <2>2, <2>3, <3>2 DEF TypeOK
      <4> QED  BY <1>1, <4>1
    <3> QED  BY <2>2, <3>1, <3>2
  <2>5. btc'[m] - btc[m] \in 0..FmtQty(q)
    <3>0. /\ q \in Nat /\ FmtQty(q) \in Nat
          /\ h.exec \in Nat /\ h.actual \in 0..FmtQty(q)
          /\ h.exec > 0 => h.actual = h.exec
      BY <2>1, <2>2, HedgeAssumption, FmtQtyType, HedgeType DEF HedgeSizes
    <3>1. CASE btc' = [btc EXCEPT ![m] = btc[m] + h.actual]
      <4>1. btc'[m] = btc[m] + h.actual  BY <3>1 DEF TypeOK
      <4> QED  BY <1>1, <3>0, <4>1
    <3>2. ASSUME HedgeFilled(h.exec, q), NEW c \in HedgeOutcomes(h.exec),
                 btc' = [btc EXCEPT ![m] = btc[m] + h.actual - c.actual]
          PROVE  btc'[m] - btc[m] \in 0..FmtQty(q)
      <4>1. h.actual = h.exec  BY <2>1, <3>0, <3>2, FilledExecutes
      <4>2. c.actual \in 0..h.actual
        <5>1. c.actual \in 0..FmtQty(h.exec) /\ FmtQty(h.exec) \in 0..h.exec
          BY <3>0, <3>2, HedgeType, FmtQtyType
        <5> QED  BY <3>0, <4>1, <5>1
      <4>3. btc'[m] = btc[m] + h.actual - c.actual  BY <3>2 DEF TypeOK
      <4> QED  BY <1>1, <3>0, <4>2, <4>3
    <3> QED  BY <2>2, <3>1, <3>2
  <2>6. UNCHANGED <<pos, sharedVars>>
    BY <1>6 DEF fire_leg_fail
  <2>7. q \in Hedges  BY <2>1 DEF HedgeSizes
  <2> QED  BY <2>4, <2>5, <2>6, <2>7
<1> QED  BY <1>3, <1>4, <1>5, <1>6 DEF taker_eval_end

FailedStep ==
    \A m \in Markets :
        pc[m] = "fire" /\ st'[m] = "IDLE" =>
            /\ pos'[m] = pos[m] /\ count' = count /\ exposure' = exposure
            /\ yes'[m] - yes[m] \in -MaxTrade..MaxTrade
            /\ \E q \in Hedges \cup {0} : btc'[m] - btc[m] \in 0..FmtQty(q)

\* Only the end of fire() takes an entry back to IDLE.
LEMMA FailedHolds == Inv /\ [Next]_vars => [FailedStep]_vars
<1>1. ASSUME Inv, [Next]_vars PROVE [FailedStep]_vars
  <2>1. SUFFICES ASSUME ~UNCHANGED vars, NEW k \in Markets, pc[k] = "fire", st'[k] = "IDLE"
                 PROVE  taker_eval_end(k)
    BY <1>1, FailedEntryEffect DEF FailedStep
  <2>2. st[k] = "TAKER_EVAL"
    BY <1>1, <2>1 DEF Inv, OrdersMatchState
  <2>3. PICK m \in Markets : Thread(m) \/ Outside(m)
    BY <1>1, <2>1 DEF Next
  <2>4. k = m
    BY <1>1, <2>1, <2>2, <2>3, Frame DEF FrameOf
  <2>5. ~Outside(m)
    BY <2>1, <2>2, <2>4 DEF Outside, notify, emergency_flatten, stop_machine, AdvanceTime,
       CooldownEnds, FillQuote, FillStray
  <2> QED
    BY <2>1, <2>3, <2>4, <2>5
    DEF Thread, run_stop, run_flatten, evaluate_expired, handle_idle, taker_eval_begin,
        handle_position_open, handle_maker_quoted, handle_closing, Dispatch, InEvaluate
<1> QED  BY <1>1

\* No fault of the exchanges makes a failed entry leave more than one trade in
\* an account or anything in the books, whatever its size and the other machines.
THEOREM FailedEntries == Spec => FailedEntryBounded
  BY FailedHolds, Invariance, PTL DEF Spec, FailedEntryBounded, FailedStep

LateEntryOf(m) ==
    ("entries_stopped" \in flags'[m] /\ st'[m] # st[m]) =>
        /\ st'[m] # "MAKER_QUOTED"
        /\ st'[m] = "TAKER_EVAL" =>
              st[m] = "MAKER_QUOTED" /\ "quotes_cancelled" \notin flags'[m]

LateStep == \A m \in Markets : LateEntryOf(m)

\* The handlers latch the deadlines before they look for an entry.
LEMMA LateHolds == Inv /\ [Next]_vars => [LateStep]_vars
<1>1. ASSUME Inv, [Next]_vars PROVE [LateStep]_vars
  <2> TypeOK  BY <1>1 DEF Inv
  <2>1. ASSUME NEW m \in Markets, Thread(m) \/ Outside(m) PROVE LateEntryOf(m)
    <3>1. CASE st'[m] = st[m] \/ st'[m] \in {"IDLE", "CLOSING", "POSITION_OPEN"}
      BY <3>1 DEF LateEntryOf
    <3>2. CASE run_stop(m) \/ taker_eval_begin(m) \/ Outside(m)
      BY <3>1, <3>2 DEF run_stop, taker_eval_begin, Outside, notify, emergency_flatten,
         stop_machine, AdvanceTime, CooldownEnds, FillQuote, FillStray
    <3>3. CASE close_position(m)
      BY <3>1, <3>3, ClosePositionEffect DEF TypeOK
    <3>4. CASE run_flatten(m) \/ evaluate_expired(m) \/ handle_position_open(m)
      BY <3>1, <3>3, <3>4 DEF run_flatten, evaluate_expired, handle_position_open
    <3>5. CASE handle_idle(m)
      <4>1. flags'[m] = Latched(m)
        BY <3>5 DEF handle_idle, Dispatch, TypeOK
      <4>2. CASE "entries_stopped" \notin Latched(m)
        BY <4>1, <4>2 DEF LateEntryOf
      <4> QED
        BY <3>1, <3>3, <3>5, <4>2 DEF handle_idle, StayIdle, IdleToTaker, IdleToMaker, MayEnter
    <3>6. CASE taker_eval_end(m)
      BY <1>1, <3>1, <3>6, FireEffect DEF FireResult, TypeOK
    <3>7. CASE handle_maker_quoted(m)
      <4>1. flags'[m] = Latched(m) /\ st[m] = "MAKER_QUOTED"
        BY <3>7 DEF handle_maker_quoted, Dispatch, TypeOK
      <4>2. CASE QuotedDeadline(m)
        BY <3>1, <4>2, NoLateFill DEF QuotedDeadline, TypeOK
      <4>3. CASE QuotedToTaker(m)
        BY <4>1, <4>3 DEF QuotedToTaker, LateEntryOf, TypeOK
      <4>4. CASE QuotedManage(m)
        BY <3>1, <4>4 DEF QuotedManage, TypeOK
      <4> QED  BY <3>7, <4>2, <4>3, <4>4 DEF handle_maker_quoted
    <3>8. CASE handle_closing(m)
      BY <3>1, <3>8 DEF handle_closing, TypeOK
    <3> QED  BY <2>1, <3>2, <3>4, <3>5, <3>6, <3>7, <3>8 DEF Thread
  <2>2. CASE UNCHANGED vars
    BY <2>2
  <2>3. ASSUME NEW m \in Markets, Thread(m) \/ Outside(m) PROVE LateStep
    BY <1>1, <2>1, <2>3, Frame DEF FrameOf, LateStep, LateEntryOf
  <2> QED  BY <1>1, <2>2, <2>3 DEF Next
<1> QED  BY <1>1

\* After T-120s only a machine that is quoting starts an entry, and only before
\* T-45s, even when the scanner's callbacks come late or not at all.
THEOREM LateEntries == Spec => LateEntryOnlyFromQuotes
  BY LateHolds, Invariance, PTL DEF Spec, LateEntryOnlyFromQuotes, LateStep, LateEntryOf

-----------------------------------------------------------------------------
(* Which steps can leave order ids behind.                                 *)

\* A quote() that reports failure holds no id.
LEMMA FailedQuoteHoldsNone ==
    ASSUME NEW q, NEW r \in QuoteFrom(q), ~r.ok
    PROVE  r.quotes = NoQuotes
  BY DEF QuoteFrom, QuoteResults, NoQuotes

\* A manage() that ends the quoting, by a fill or a timeout, holds no id.
LEMMA EndedQuoteHoldsNone ==
    ASSUME NEW q, NEW r \in Manage(q), Filled(r) \/ r.status = "TIMED_OUT"
    PROVE  r.quotes = NoQuotes
<1>1. ASSUME NEW x \in QuoteFrom(q),
             r = [status |-> IF x.ok THEN "REPRICED" ELSE "TIMED_OUT",
                  quotes |-> x.quotes, left |-> x.left]
      PROVE  r.quotes = NoQuotes
  <2>1. ~x.ok  BY <1>1 DEF Filled
  <2>2. x.quotes = NoQuotes  BY <2>1, FailedQuoteHoldsNone
  <2> QED  BY <1>1, <2>2
<1>2. CASE r.status = "ACTIVE"
  BY <1>2 DEF Filled
<1>3. CASE \E l : r = [status |-> "TIMED_OUT", quotes |-> NoQuotes, left |-> l]
  BY <1>3
<1>4. CASE \E l, s : r = [status |-> s, quotes |-> NoQuotes, left |-> l]
  BY <1>4
<1> QED  BY <1>1, <1>2, <1>3, <1>4 DEF Manage

LeftBehind(m) ==
    (/\ st[m] = "MAKER_QUOTED" \/ quotes[m] = NoQuotes
     /\ st'[m] # "MAKER_QUOTED" /\ quotes'[m] # NoQuotes)
        => flatten[m] \/ "quotes_cancelled" \in flags'[m]

LeftStep == \A m \in Markets : LeftBehind(m)

\* A machine leaves MAKER_QUOTED without ids, but for two reasons.
LEMMA LeftHolds == Inv /\ [Next]_vars => [LeftStep]_vars
<1>1. ASSUME Inv, [Next]_vars PROVE [LeftStep]_vars
  <2> TypeOK  BY <1>1 DEF Inv
  <2>1. ASSUME NEW m \in Markets, Thread(m) \/ Outside(m) PROVE LeftBehind(m)
    <3>1. CASE quotes'[m] = NoQuotes \/ st'[m] = "MAKER_QUOTED" \/ flatten[m]
               \/ "quotes_cancelled" \in flags'[m]
      BY <3>1 DEF LeftBehind
    <3>2. CASE UNCHANGED <<st, quotes>>
      BY <3>2 DEF LeftBehind
    <3>3. CASE run_stop(m) \/ taker_eval_begin(m) \/ run_flatten(m)
      BY <3>1, <3>2, <3>3 DEF run_stop, taker_eval_begin, run_flatten
    <3>4. CASE UNCHANGED quotes /\ st[m] # "MAKER_QUOTED"
      BY <3>4 DEF LeftBehind
    <3>5. CASE evaluate_expired(m) \/ handle_position_open(m) \/ taker_eval_end(m)
               \/ handle_closing(m)
      BY <1>1, <3>2, <3>4, <3>5
      DEF evaluate_expired, handle_position_open, taker_eval_end, handle_closing, Dispatch,
          Inv, BookedIffOpen, OrdersMatchState
    <3>6. CASE handle_idle(m)
      <4>1. st[m] = "IDLE" /\ ~IsOpen(m)
        BY <1>1, <3>6 DEF handle_idle, Dispatch, Inv, BookedIffOpen
      <4>2. CASE IdleToMaker(m)
        <5>1. PICK r \in QuoteFrom(quotes[m]) :
                /\ quotes' = [quotes EXCEPT ![m] = r.quotes]
                /\ st' = IF r.ok THEN [st EXCEPT ![m] = "MAKER_QUOTED"] ELSE st
          BY <4>2 DEF IdleToMaker
        <5>2. CASE r.ok
          BY <3>1, <5>1, <5>2 DEF TypeOK
        <5>3. CASE ~r.ok
          BY <3>1, <5>1, <5>3, FailedQuoteHoldsNone DEF TypeOK
        <5> QED  BY <5>2, <5>3
      <4> QED  BY <3>4, <3>6, <4>1, <4>2 DEF handle_idle, StayIdle, IdleToTaker
    <3>7. CASE handle_maker_quoted(m)
      <4>1. flags'[m] = Latched(m) /\ st[m] = "MAKER_QUOTED"
        BY <3>7 DEF handle_maker_quoted, Dispatch, TypeOK
      <4>2. CASE QuotedDeadline(m)
        BY <3>1, <4>1, <4>2 DEF QuotedDeadline
      <4>3. CASE QuotedToTaker(m)
        BY <3>1, <4>3 DEF QuotedToTaker, TypeOK
      <4>4. CASE QuotedManage(m)
        <5>1. PICK r \in Manage(quotes[m]) :
                /\ quotes' = [quotes EXCEPT ![m] = r.quotes]
                /\ Filled(r) \/ r.status = "TIMED_OUT" \/ st' = st
          BY <4>4 DEF QuotedManage
        <5>2. CASE st' = st
          BY <3>1, <4>1, <5>2
        <5>3. CASE Filled(r) \/ r.status = "TIMED_OUT"
          BY <3>1, <5>1, <5>3, EndedQuoteHoldsNone DEF TypeOK
        <5> QED  BY <5>1, <5>2, <5>3
      <4> QED  BY <3>7, <4>2, <4>3, <4>4 DEF handle_maker_quoted
    <3>8. CASE Outside(m)
      <4>1. ASSUME NEW s \in Sides, FillQuote(m, s) PROVE LeftBehind(m)
        BY <4>1 DEF FillQuote, NoQuotes, LeftBehind
      <4>2. CASE UNCHANGED <<st, quotes>>
        BY <3>2, <4>2
      <4> QED
        BY <3>8, <4>1, <4>2 DEF Outside, notify, emergency_flatten, stop_machine,
           AdvanceTime, CooldownEnds, FillStray
    <3> QED  BY <2>1, <3>3, <3>5, <3>6, <3>7, <3>8 DEF Thread
  <2>2. CASE UNCHANGED vars
    BY <2>2
  <2>3. ASSUME NEW m \in Markets, Thread(m) \/ Outside(m) PROVE LeftStep
    BY <1>1, <2>1, <2>3, Frame DEF FrameOf, LeftStep, LeftBehind
  <2> QED  BY <1>1, <2>2, <2>3 DEF Next
<1> QED  BY <1>1

\* Only a flatten request or the T-45s deadline makes a machine leave MAKER_QUOTED
\* with order ids that no later step looks at.
THEOREM QuotesLeft == Spec => QuotesLeftBehind
  BY LeftHolds, Invariance, PTL DEF Spec, QuotesLeftBehind, LeftStep, LeftBehind

-----------------------------------------------------------------------------
(* Taker entries only: the market data never gives the maker's signal.     *)

\* Without that signal no machine quotes and no order is ever left behind.
MakerOff ==
    \A m \in Markets :
        /\ st[m] # "MAKER_QUOTED"
        /\ quotes[m] = NoQuotes
        /\ \A s \in Sides : stray[m][s] = 0

\* Only handle_idle starts to quote.
LEMMA MakerOffStep ==
    ASSUME "maker" \notin Signals, Inv, MakerOff, [Next]_vars
    PROVE  MakerOff'
<1> TypeOK  BY DEF Inv
<1>1. CASE UNCHANGED vars  BY <1>1 DEF MakerOff
<1>2. ASSUME NEW m \in Markets, st' = st \/ \E x \in States \ {"MAKER_QUOTED"} :
                                  st' = [st EXCEPT ![m] = x],
             UNCHANGED quoteVars
      PROVE  MakerOff'
  BY <1>2 DEF MakerOff, TypeOK
<1>3. ASSUME NEW m \in Markets, close_position(m), UNCHANGED quoteVars  PROVE MakerOff'
  BY <1>2, <1>3, ClosePositionEffect DEF States
<1>4. ASSUME NEW m \in Markets, Thread(m)  PROVE MakerOff'
  <2>1. CASE run_stop(m) \/ taker_eval_begin(m)
    BY <1>2, <1>4, <2>1 DEF run_stop, taker_eval_begin
  <2>2. CASE run_flatten(m) \/ evaluate_expired(m) \/ handle_position_open(m)
    BY <1>2, <1>3, <1>4, <2>2 DEF run_flatten, evaluate_expired, handle_position_open
  <2>3. CASE handle_idle(m)
    BY <1>2, <1>3, <1>4, <2>3
    DEF handle_idle, StayIdle, IdleToTaker, IdleToMaker, States
  <2>4. CASE taker_eval_end(m)
    <3>1. UNCHANGED quoteVars  BY <2>4 DEF taker_eval_end
    <3>2. \E x \in States \ {"MAKER_QUOTED"} : st' = [st EXCEPT ![m] = x]
      BY <1>4, <2>4, FireEffect DEF FireResult, States
    <3> QED  BY <1>2, <1>4, <3>1, <3>2
  <2>5. ~handle_maker_quoted(m)
    BY <1>4 DEF handle_maker_quoted, Dispatch, MakerOff
  <2>6. CASE handle_closing(m)  BY <1>2, <1>4, <2>6 DEF handle_closing, States
  <2> QED  BY <1>4, <2>1, <2>2, <2>3, <2>4, <2>5, <2>6 DEF Thread
<1>5. ASSUME NEW m \in Markets, Outside(m)  PROVE MakerOff'
  <2>1. ASSUME NEW s \in Sides  PROVE ~FillQuote(m, s) /\ ~FillStray(m, s)
    BY <1>5, <2>1 DEF FillQuote, FillStray, MakerOff, NoQuotes
  <2> QED
    BY <1>2, <1>5, <2>1 DEF Outside, notify, emergency_flatten, stop_machine, AdvanceTime,
       CooldownEnds
<1> QED  BY <1>1, <1>4, <1>5 DEF Next

LEMMA MakerOffInit == Init => MakerOff
  BY DEF Init, MakerOff, Sides

\* What the exposure can be while entries wait one at a time: no more than the
\* cap, and no more than the machine that waits has read.
CapInv ==
    /\ exposure <= MaxTotal
    /\ \A m \in Markets : pc[m] = "fire" => exposure <= snap[m]

\* An entry that books adds no more than the room its machine has seen.
LEMMA FireRoom ==
    ASSUME Inv, NEW m \in Markets, taker_eval_end(m)
    PROVE  \/ exposure' = exposure
           \/ \E size \in Nat : size <= MaxTotal - snap[m] /\ exposure' = exposure + size
<1>1. CASE fire_nothing(m) \/ fire_error(m) \/ fire_leg_fail(m)
  BY <1>1 DEF fire_nothing, fire_error, fire_leg_fail
<1>2. CASE fire_success(m)
  <2>1. PICK size \in TakerSizes(m) : exposure' = exposure + size
    BY <1>2 DEF fire_success, BookOpen
  <2>2. size \in Nat /\ size <= MaxTotal - snap[m]  BY SizeAssumption DEF TakerSizes
  <2> QED  BY <2>1, <2>2
<1> QED  BY <1>1, <1>2 DEF taker_eval_end

\* With one entry waiting at a time nothing but closes happens to the exposure
\* between its reading and the booking.
LEMMA CapStep ==
    ASSUME Inv, MakerOff, FiresAlone, CapInv, [Next]_vars
    PROVE  CapInv'
<1> TypeOK  BY DEF Inv
<1>0. exposure \in Int /\ MaxTotal \in Nat /\ \A k \in Markets : snap[k] \in Int
  BY SizeAssumption DEF TypeOK
<1>1. ASSUME \A k \in Markets : pc'[k] = "fire" => pc[k] = "fire" /\ snap'[k] = snap[k],
             exposure' \in Int, exposure' <= exposure
      PROVE  CapInv'
  BY <1>0, <1>1 DEF CapInv
<1>2. CASE UNCHANGED vars  BY <1>0, <1>1, <1>2
<1>3. ASSUME NEW m \in Markets, Outside(m)  PROVE CapInv'
  <2>1. UNCHANGED <<pc, snap, exposure>>
    BY <1>3 DEF Outside, notify, emergency_flatten, stop_machine, AdvanceTime,
                CooldownEnds, FillQuote, FillStray
  <2> QED  BY <1>0, <1>1, <2>1
<1>4. ASSUME NEW m \in Markets, Thread(m)  PROVE CapInv'
  <2>1. CASE run_stop(m) \/ run_flatten(m) \/ evaluate_expired(m) \/ handle_idle(m)
             \/ handle_position_open(m)
    <3>1. UNCHANGED <<snap, exposure>>
      BY <2>1 DEF run_stop, run_flatten, evaluate_expired, handle_idle, handle_position_open
    <3>2. \E x \in {"loop", "eval", "done"} : pc' = [pc EXCEPT ![m] = x]
      BY <2>1 DEF run_stop, run_flatten, evaluate_expired, handle_idle,
                  handle_position_open, NextIteration
    <3> QED  BY <1>0, <1>1, <1>4, <3>1, <3>2 DEF TypeOK
  <2>2. CASE taker_eval_begin(m)
    <3>1. /\ snap' = [snap EXCEPT ![m] = exposure] /\ exposure' = exposure
          /\ pc' = [pc EXCEPT ![m] = "fire"]
      BY <2>2 DEF taker_eval_begin
    <3> QED  BY <1>0, <1>4, <3>1 DEF CapInv, TypeOK
  <2>3. CASE taker_eval_end(m)
    <3>1. pc[m] = "fire" /\ pc' = [pc EXCEPT ![m] = "loop"] /\ snap' = [snap EXCEPT ![m] = 0]
      BY <2>3 DEF taker_eval_end, NextIteration
    <3>2. \A k \in Markets : pc'[k] # "fire"
      BY <1>4, <3>1 DEF FiresAlone, TypeOK
    <3>3. exposure <= snap[m] /\ exposure <= MaxTotal  BY <1>4, <3>1 DEF CapInv
    <3>4. CASE exposure' = exposure  BY <3>2, <3>3, <3>4 DEF CapInv
    <3>5. ASSUME NEW size \in Nat, size <= MaxTotal - snap[m], exposure' = exposure + size
          PROVE  CapInv'
      <4>1. exposure' <= MaxTotal  BY <1>0, <1>4, <3>3, <3>5
      <4> QED  BY <3>2, <4>1 DEF CapInv
    <3> QED  BY <1>4, <2>3, <3>4, <3>5, FireRoom
  <2>4. ~handle_maker_quoted(m)
    BY <1>4 DEF handle_maker_quoted, Dispatch, MakerOff
  <2>5. CASE handle_closing(m)
    <3>1. pc' = [pc EXCEPT ![m] = "loop"] /\ snap' = snap
      BY <2>5 DEF handle_closing, NextIteration
    <3>2. exposure' = exposure \/ exposure' = exposure - pos[m].size
      BY <2>5 DEF handle_closing, BookClose
    <3>3. pos[m].size \in Nat  BY <1>4 DEF TypeOK
    <3>4. exposure' \in Int /\ exposure' <= exposure  BY <1>0, <3>2, <3>3
    <3> QED  BY <1>1, <1>4, <3>1, <3>4 DEF TypeOK
  <2> QED  BY <1>4, <2>1, <2>2, <2>3, <2>4, <2>5 DEF Thread
<1> QED  BY <1>2, <1>3, <1>4 DEF Next

LEMMA CapInit == Init => CapInv
  BY SizeAssumption DEF Init, CapInv

\* For every number of markets, every cap and all faults of the exchanges: the
\* total exposure of taker entries exceeds MAX_TOTAL_EXPOSURE_USDC only where two
\* entries wait for the exchanges at the same time.
THEOREM CapExceededByOverlapOnly == Spec => CapNeedsOverlap
<1> SUFFICES ASSUME "maker" \notin Signals
             PROVE  Spec => ([]FiresAlone => [](exposure <= MaxTotal))
  BY DEF CapNeedsOverlap
<1>1. Inv /\ MakerOff /\ FiresAlone /\ CapInv /\ [Next]_vars => CapInv'
  BY CapStep
<1>2. Inv /\ MakerOff /\ [Next]_vars => MakerOff'
  BY MakerOffStep
<1>3. CapInv => exposure <= MaxTotal
  BY DEF CapInv
<1> QED  BY <1>1, <1>2, <1>3, CapInit, MakerOffInit, Invariance, PTL DEF Spec

\* At most one machine is between the test of open_position_count and the booking.
EvalsAlone ==
    \A m, k \in Markets : st[m] = "TAKER_EVAL" /\ st[k] = "TAKER_EVAL" => m = k

\* The counter leaves a slot for the machine that has passed the test.
SlotInv ==
    /\ count <= MaxOpen
    /\ \A m \in Markets : st[m] = "TAKER_EVAL" => count < MaxOpen

\* The counter grows at the end of an entry only, in the machine that entered.
LEMMA SlotStep ==
    ASSUME Inv, MakerOff, EvalsAlone, SlotInv, [Next]_vars
    PROVE  SlotInv'
<1> TypeOK  BY DEF Inv
<1>0. count \in Int /\ MaxOpen \in Nat  BY SizeAssumption DEF TypeOK
<1>1. ASSUME \A k \in Markets : st'[k] = "TAKER_EVAL" => st[k] = "TAKER_EVAL" \/ count < MaxOpen,
             count' \in Int, count' <= count
      PROVE  SlotInv'
  BY <1>0, <1>1 DEF SlotInv
<1>2. CASE UNCHANGED vars  BY <1>0, <1>1, <1>2
<1>3. ASSUME NEW m \in Markets, Outside(m)  PROVE SlotInv'
  <2>1. UNCHANGED <<st, count>>
    BY <1>3 DEF Outside, notify, emergency_flatten, stop_machine, AdvanceTime,
                CooldownEnds, FillQuote, FillStray
  <2> QED  BY <1>0, <1>1, <2>1
<1>4. ASSUME NEW m \in Markets, close_position(m), count' = count  PROVE SlotInv'
  BY <1>0, <1>1, <1>4, ClosePositionEffect DEF TypeOK
<1>5. ASSUME NEW m \in Markets, Thread(m)  PROVE SlotInv'
  <2>1. CASE run_stop(m) \/ taker_eval_begin(m)
    BY <1>0, <1>1, <2>1 DEF run_stop, taker_eval_begin
  <2>2. CASE run_flatten(m) \/ evaluate_expired(m) \/ handle_position_open(m)
    BY <1>0, <1>1, <1>4, <1>5, <2>2 DEF run_flatten, evaluate_expired, handle_position_open
  <2>3. CASE handle_idle(m)
    <3>1. count' = count  BY <2>3 DEF handle_idle
    <3>2. CASE close_position(m)  BY <1>4, <1>5, <3>1, <3>2
    <3>3. CASE StayIdle(m)  BY <1>0, <1>1, <3>1, <3>3 DEF StayIdle
    <3>4. CASE IdleToTaker(m)
      BY <1>0, <1>1, <3>1, <3>4 DEF IdleToTaker, MayEnter
    <3>5. CASE IdleToMaker(m)
      BY <1>0, <1>1, <3>1, <3>5 DEF IdleToMaker, TypeOK
    <3> QED  BY <2>3, <3>2, <3>3, <3>4, <3>5 DEF handle_idle
  <2>4. CASE taker_eval_end(m)
    <3>1. st[m] = "TAKER_EVAL"
      BY <1>5, <2>4 DEF taker_eval_end, Inv, OrdersMatchState
    <3>2. \A k \in Markets : st'[k] # "TAKER_EVAL"
      <4>1. \E x \in {"IDLE", "POSITION_OPEN"} : st' = [st EXCEPT ![m] = x]
        BY <1>5, <2>4, FireEffect DEF FireResult
      <4> QED  BY <1>5, <3>1, <4>1 DEF EvalsAlone, TypeOK
    <3>3. count' = count \/ count' = count + 1
      BY <1>5, <2>4, FireEffect DEF FireResult, BookOpen
    <3>4. count < MaxOpen  BY <1>5, <3>1 DEF SlotInv
    <3> QED  BY <1>0, <3>2, <3>3, <3>4 DEF SlotInv
  <2>5. ~handle_maker_quoted(m)
    BY <1>5 DEF handle_maker_quoted, Dispatch, MakerOff
  <2>6. CASE handle_closing(m)
    <3>1. count' = count \/ count' = count - 1
      BY <2>6 DEF handle_closing, BookClose
    <3>2. \A k \in Markets : st'[k] = "TAKER_EVAL" => st[k] = "TAKER_EVAL"
      BY <1>5, <2>6 DEF handle_closing, TypeOK
    <3> QED  BY <1>0, <1>1, <3>1, <3>2
  <2> QED  BY <1>5, <2>1, <2>2, <2>3, <2>4, <2>5, <2>6 DEF Thread
<1> QED  BY <1>2, <1>3, <1>5 DEF Next

LEMMA SlotInit == Init => SlotInv
  BY SizeAssumption DEF Init, SlotInv

\* The same of MAX_OPEN_POSITIONS: with taker entries that do not overlap between
\* the test in handle_idle and the booking, it is never exceeded.
THEOREM SlotsExceededByOverlapOnly ==
    "maker" \notin Signals => (Spec => ([]EvalsAlone => [](count <= MaxOpen)))
<1> SUFFICES ASSUME "maker" \notin Signals
             PROVE  Spec => ([]EvalsAlone => [](count <= MaxOpen))
  OBVIOUS
<1>1. Inv /\ MakerOff /\ EvalsAlone /\ SlotInv /\ [Next]_vars => SlotInv'
  BY SlotStep
<1>2. Inv /\ MakerOff /\ [Next]_vars => MakerOff'
  BY MakerOffStep
<1>3. SlotInv => count <= MaxOpen
  BY DEF SlotInv
<1> QED  BY <1>1, <1>2, <1>3, SlotInit, MakerOffInit, Invariance, PTL DEF Spec

-----------------------------------------------------------------------------
(* The accounts follow the books, with exchanges that do what they report. *)

\* Without faults an order is executed in full, as far as it is asked for after
\* the cut, and says so.
LEMMA WorkingExchanges ==
    ASSUME Faults = {}, NEW q
    PROVE  /\ IocOutcomes(q) = {[ok |-> TRUE, id |-> TRUE, matched |-> q]}
           /\ HedgeOutcomes(q) = {[exec |-> FmtQty(q), actual |-> FmtQty(q)]}
  BY DEF IocOutcomes, HedgeOutcomes

\* A machine that is CLOSING has sent a close order.
ClosingCounted == \A m \in Markets : st[m] = "CLOSING" => closes[m] > 0

\* The hedge of an open position is one that can be ordered, and ordered as it is:
\* it is what an order of whole lots executed.
HedgeWhole ==
    \A m \in Markets :
        IsOpen(m) => pos[m].hedge >= HedgeLot /\ FmtQty(pos[m].hedge) = pos[m].hedge

\* What a step does to the accounts of k, and what it does to its books.
FollowsOf(k) ==
    \/ closes[k] > 0 /\ closes'[k] > closes[k]
    \/ /\ yes'[k] - yes[k] = Live(k)'.size - Live(k).size
       /\ \/ btc'[k] - btc[k] = Live(k)'.hedge - Live(k).hedge
          \/ /\ pc[k] = "fire" /\ st'[k] = "IDLE"
             /\ btc'[k] - btc[k] \in {FmtQty(q) : q \in CutShort}

\* A step that changes neither is fine.
LEMMA FollowsUnchanged ==
    ASSUME TypeOK, NEW k \in Markets, yes'[k] = yes[k], btc'[k] = btc[k],
           Live(k)' = Live(k)
    PROVE  FollowsOf(k)
<1>1. yes[k] \in Int /\ btc[k] \in Int  BY DEF TypeOK
<1>2. Live(k).size \in Nat /\ Live(k).hedge \in Nat  BY DEF TypeOK, Live, NoPosition
<1> QED  BY <1>1, <1>2 DEF FollowsOf

\* close_position sells what is held when it is the first close order of the
\* position, and a later one is one of those the property leaves out.
LEMMA CloseFollows ==
    ASSUME Faults = {}, Inv, OpenUnclosed, ClosingCounted, HedgeWhole,
           NEW m \in Markets, close_position(m), pos' = pos
    PROVE  FollowsOf(m)
<1> TypeOK  BY DEF Inv
<1>1. /\ yes[m] \in Int /\ btc[m] \in Int /\ closes[m] \in Nat
      /\ pos[m].size \in Nat /\ pos[m].hedge \in Nat
      /\ MaxCloses \in Nat \ {0} /\ st[m] \in States
  BY BoundAssumption DEF TypeOK
<1>2. CASE ~IsOpen(m)
  <2>1. yes'[m] = yes[m] /\ btc'[m] = btc[m] /\ st'[m] = "IDLE"
    BY <1>2 DEF close_position, TypeOK
  <2>2. st[m] # "POSITION_OPEN"  BY <1>2 DEF Inv, BookedIffOpen
  <2>3. Live(m)' = NoPosition /\ Live(m) = NoPosition  BY <2>1, <2>2 DEF Live, NoPosition
  <2> QED  BY <2>1, <2>3, FollowsUnchanged
<1>3. CASE IsOpen(m)
  <2>1. PICK o \in CloseOutcomes(pos[m].size, closes[m]),
             h \in CloseHedges(pos[m].hedge, closes[m]) :
          /\ st' = [st EXCEPT ![m] = "CLOSING"]
          /\ closes' = [closes EXCEPT ![m] = Capped(closes[m] + 1, MaxCloses)]
          /\ yes' = [yes EXCEPT ![m] = yes[m] - o.matched]
          /\ btc' = [btc EXCEPT ![m] = btc[m] - h.actual]
    BY <1>3 DEF close_position, SubmitClose
  <2>0. /\ st'[m] = "CLOSING"
        /\ closes'[m] = Capped(closes[m] + 1, MaxCloses)
        /\ yes'[m] = yes[m] - o.matched
        /\ btc'[m] = btc[m] - h.actual
    BY <2>1 DEF TypeOK
  <2>2. Live(m)' = NoPosition  BY <2>0 DEF Live, NoPosition
  <2>3. CASE st[m] = "POSITION_OPEN"
    <3>1. closes[m] = 0  BY <2>3 DEF OpenUnclosed
    <3>2. o.matched = pos[m].size /\ h.actual = pos[m].hedge
      <4>1. o \in IocOutcomes(pos[m].size) /\ h \in HedgeOutcomes(pos[m].hedge)
        BY <1>1, <1>3, <2>1, <3>1 DEF CloseOutcomes, CloseHedges, HedgeWhole
      <4>2. FmtQty(pos[m].hedge) = pos[m].hedge  BY <1>3 DEF HedgeWhole
      <4> QED  BY <4>1, <4>2, WorkingExchanges
    <3>3. Live(m) = pos[m]  BY <2>3 DEF Live
    <3> QED  BY <1>1, <2>0, <2>2, <3>2, <3>3 DEF FollowsOf, NoPosition
  <2>4. CASE st[m] = "CLOSING"
    <3>1. closes[m] > 0  BY <2>4 DEF ClosingCounted
    <3>2. Live(m) = NoPosition  BY <2>4 DEF Live
    <3>3. CASE closes[m] < MaxCloses
      <4>1. closes'[m] > closes[m]  BY <1>1, <2>0, <3>3 DEF Capped
      <4> QED  BY <3>1, <4>1 DEF FollowsOf
    <3>4. CASE ~(closes[m] < MaxCloses)
      <4>1. o = [ok |-> TRUE, id |-> TRUE, matched |-> 0] /\ h = [exec |-> 0, actual |-> 0]
        BY <2>1, <3>4 DEF CloseOutcomes, CloseHedges
      <4>2. o.matched = 0 /\ h.actual = 0  BY <4>1
      <4>3. yes'[m] = yes[m] /\ btc'[m] = btc[m]  BY <1>1, <2>0, <4>2
      <4> QED  BY <2>2, <3>2, <4>3, FollowsUnchanged
    <3> QED  BY <3>3, <3>4
  <2> QED  BY <1>3, <2>3, <2>4 DEF Inv, BookedIffOpen
<1> QED  BY <1>2, <1>3

\* fire() on exchanges that work: nothing is sent, or both legs fill and are
\* booked as they are, or the hedge was cut short and alone stays behind.
LEMMA FireWorking ==
    ASSUME Faults = {}, Inv, NEW m \in Markets, taker_eval_end(m)
    PROVE  \/ st' = [st EXCEPT ![m] = "IDLE"] /\ UNCHANGED <<pos, yes, btc>>
           \/ \E size \in Nat, q \in HedgeSizes :
                /\ st' = [st EXCEPT ![m] = "POSITION_OPEN"]
                /\ pos' = [pos EXCEPT ![m] = [size |-> size, hedge |-> FmtQty(q)]]
                /\ yes' = [yes EXCEPT ![m] = yes[m] + size]
                /\ btc' = [btc EXCEPT ![m] = btc[m] + FmtQty(q)]
           \/ \E q \in CutShort :
                /\ st' = [st EXCEPT ![m] = "IDLE"] /\ UNCHANGED <<pos, yes>>
                /\ btc' = [btc EXCEPT ![m] = btc[m] + FmtQty(q)]
<1> TypeOK  BY DEF Inv
<1>1. CASE fire_nothing(m)  BY <1>1 DEF fire_nothing
<1>2. CASE fire_error(m)
  <2>1. PICK size \in TakerSizes(m) : \E o \in IocOutcomes(size) : ~o.ok
    BY <1>2 DEF fire_error
  <2> QED  BY <2>1, WorkingExchanges
<1>3. CASE fire_leg_fail(m)
  <2>1. PICK size \in TakerSizes(m), q \in HedgeSizes :
          \E o \in IocOutcomes(size), h \in HedgeOutcomes(q) :
            /\ ~(o.id /\ HedgeFilled(h.exec, q))
            /\ st' = [st EXCEPT ![m] = "IDLE"]
            /\ o.id => \E u \in IocOutcomes(size) :
                          yes' = [yes EXCEPT ![m] = yes[m] + o.matched - u.matched]
            /\ o.id => btc' = [btc EXCEPT ![m] = btc[m] + h.actual]
            /\ UNCHANGED pos
    BY <1>3 DEF fire_leg_fail
  <2>2. PICK o \in IocOutcomes(size), h \in HedgeOutcomes(q) :
            /\ ~(o.id /\ HedgeFilled(h.exec, q))
            /\ st' = [st EXCEPT ![m] = "IDLE"]
            /\ o.id => \E u \in IocOutcomes(size) :
                          yes' = [yes EXCEPT ![m] = yes[m] + o.matched - u.matched]
            /\ o.id => btc' = [btc EXCEPT ![m] = btc[m] + h.actual]
            /\ UNCHANGED pos
    BY <2>1
  <2>3. /\ o.id /\ o.matched = size
        /\ h.exec = FmtQty(q) /\ h.actual = FmtQty(q)
        /\ \A u \in IocOutcomes(size) : u.matched = size
    BY <2>2, WorkingExchanges
  <2>4. q \in CutShort  BY <2>1, <2>2, <2>3 DEF CutShort
  <2>5. yes' = yes
    <3>1. yes' = [yes EXCEPT ![m] = yes[m] + size - size]  BY <2>2, <2>3
    <3>2. size \in Nat /\ yes[m] \in Int  BY SizeAssumption DEF TakerSizes, TypeOK
    <3>3. yes[m] + size - size = yes[m]  BY <3>2
    <3> QED  BY <3>1, <3>3 DEF TypeOK
  <2> QED  BY <2>2, <2>3, <2>4, <2>5
<1>4. CASE fire_success(m)
  <2>1. SUFFICES ASSUME NEW size \in TakerSizes(m), NEW q \in HedgeSizes,
                        NEW o \in IocOutcomes(size), NEW h \in HedgeOutcomes(q),
                        BookOpen(m, size, h.exec),
                        st' = [st EXCEPT ![m] = "POSITION_OPEN"],
                        yes' = [yes EXCEPT ![m] = yes[m] + o.matched],
                        btc' = [btc EXCEPT ![m] = btc[m] + h.actual]
                 PROVE  \E n \in Nat, x \in HedgeSizes :
                          /\ st' = [st EXCEPT ![m] = "POSITION_OPEN"]
                          /\ pos' = [pos EXCEPT ![m] = [size |-> n, hedge |-> FmtQty(x)]]
                          /\ yes' = [yes EXCEPT ![m] = yes[m] + n]
                          /\ btc' = [btc EXCEPT ![m] = btc[m] + FmtQty(x)]
    BY <1>4 DEF fire_success
  <2>3. o.matched = size /\ h.exec = FmtQty(q) /\ h.actual = FmtQty(q)
    BY <2>1, WorkingExchanges
  <2>4. size \in Nat  BY SizeAssumption DEF TakerSizes
  <2> QED  BY <2>1, <2>3, <2>4 DEF BookOpen
<1> QED  BY <1>1, <1>2, <1>3, <1>4 DEF taker_eval_end

\* The steps of a machine that does not quote, sorted by what they do.
CloseOrQuiet(m) ==
    \/ close_position(m) /\ pos' = pos
    \/ UNCHANGED <<st, pos, accountVars>>
    \/ /\ st[m] = "IDLE" /\ st' = [st EXCEPT ![m] = "TAKER_EVAL"]
       /\ UNCHANGED <<pos, accountVars>>
    \/ /\ st[m] = "CLOSING" /\ st' = [st EXCEPT ![m] = "IDLE"]
       /\ pos' = [pos EXCEPT ![m] = NoPosition]
       /\ UNCHANGED accountVars

LEMMA TakerStepKind ==
    ASSUME "maker" \notin Signals, Inv, MakerOff, NEW m \in Markets, Thread(m) \/ Outside(m)
    PROVE  CloseOrQuiet(m) \/ taker_eval_end(m)
<1>1. CASE Outside(m)
  <2>1. ASSUME NEW s \in Sides  PROVE ~FillQuote(m, s) /\ ~FillStray(m, s)
    BY <2>1 DEF FillQuote, FillStray, MakerOff, NoQuotes
  <2> QED
    BY <1>1, <2>1 DEF Outside, notify, emergency_flatten, stop_machine, AdvanceTime,
       CooldownEnds, CloseOrQuiet
<1>2. CASE run_stop(m) \/ taker_eval_begin(m)
  BY <1>2 DEF run_stop, taker_eval_begin, CloseOrQuiet
<1>3. CASE run_flatten(m) \/ evaluate_expired(m) \/ handle_position_open(m)
  BY <1>3 DEF run_flatten, evaluate_expired, handle_position_open, CloseOrQuiet
<1>4. CASE handle_idle(m)
  BY <1>4 DEF handle_idle, Dispatch, StayIdle, IdleToTaker, IdleToMaker, CloseOrQuiet
<1>5. ~handle_maker_quoted(m)
  BY DEF handle_maker_quoted, Dispatch, MakerOff
<1>6. CASE handle_closing(m)
  BY <1>6 DEF handle_closing, Dispatch, BookClose, CloseOrQuiet
<1> QED  BY <1>1, <1>2, <1>3, <1>4, <1>5, <1>6 DEF Thread

\* CLOSING is entered by sending a close order, and the count restarts only
\* with a new position.
LEMMA ClosingCountedStep ==
    ASSUME "maker" \notin Signals, Inv, MakerOff, ClosingCounted, [Next]_vars
    PROVE  ClosingCounted'
<1> TypeOK  BY DEF Inv
<1>1. CASE UNCHANGED vars  BY <1>1 DEF ClosingCounted
<1>2. ASSUME NEW m \in Markets, Thread(m) \/ Outside(m), st'[m] = "CLOSING"
      PROVE  closes'[m] > 0
  <2>1. CASE close_position(m)
    <3>1. IsOpen(m)  BY <1>2, <2>1 DEF close_position, TypeOK
    <3>2. closes' = [closes EXCEPT ![m] = Capped(closes[m] + 1, MaxCloses)]
      BY <2>1, <3>1 DEF close_position, SubmitClose
    <3>3. closes'[m] = Capped(closes[m] + 1, MaxCloses) /\ closes[m] \in Nat
      BY <1>2, <3>2 DEF TypeOK
    <3> QED  BY <3>3, BoundAssumption DEF Capped
  <2>2. CASE UNCHANGED <<st, accountVars>>  BY <1>2, <2>2 DEF ClosingCounted
  <2>3. CASE \E x \in {"TAKER_EVAL", "IDLE", "POSITION_OPEN"} : st' = [st EXCEPT ![m] = x]
    BY <1>2, <2>3 DEF TypeOK
  <2>4. CASE taker_eval_end(m)  BY <1>2, <2>3, <2>4, FireEffect DEF FireResult
  <2>5. CASE CloseOrQuiet(m)  BY <2>1, <2>2, <2>3, <2>5 DEF CloseOrQuiet
  <2> QED  BY <1>2, <2>4, <2>5, TakerStepKind
<1>3. ASSUME NEW m \in Markets, Thread(m) \/ Outside(m)  PROVE ClosingCounted'
  BY <1>2, <1>3, Frame DEF FrameOf, ClosingCounted
<1> QED  BY <1>1, <1>3 DEF Next

\* With working exchanges an entry books what whole lots executed, and a position
\* that is quoted for, which has no hedge, does not exist.
LEMMA HedgeWholeStep ==
    ASSUME "maker" \notin Signals, Faults = {}, Inv, MakerOff, HedgeWhole, [Next]_vars
    PROVE  HedgeWhole'
<1> TypeOK  BY DEF Inv
<1>1. CASE UNCHANGED vars  BY <1>1 DEF HedgeWhole, IsOpen
<1>2. ASSUME NEW m \in Markets, Thread(m) \/ Outside(m), IsOpen(m)'
      PROVE  pos'[m].hedge >= HedgeLot /\ FmtQty(pos'[m].hedge) = pos'[m].hedge
  <2>1. CASE pos' = pos  BY <1>2, <2>1 DEF HedgeWhole, IsOpen
  <2>2. CASE pos' = [pos EXCEPT ![m] = NoPosition]
    BY <1>2, <2>2 DEF IsOpen, NoPosition, TypeOK
  <2>3. ASSUME NEW size \in Nat, NEW q \in HedgeSizes,
               pos' = [pos EXCEPT ![m] = [size |-> size, hedge |-> FmtQty(q)]]
        PROVE  pos'[m].hedge >= HedgeLot /\ FmtQty(pos'[m].hedge) = pos'[m].hedge
    <3>1. pos'[m].hedge = FmtQty(q)  BY <1>2, <2>3 DEF TypeOK
    <3>2. q \in Nat /\ q >= HedgeLot  BY <2>3, HedgeAssumption DEF HedgeSizes
    <3> QED  BY <3>1, <3>2, FmtQtyType
  <2>4. CASE taker_eval_end(m)  BY <2>1, <2>3, <2>4, FireWorking
  <2>5. CASE CloseOrQuiet(m)  BY <2>1, <2>2, <2>5 DEF CloseOrQuiet
  <2> QED  BY <1>2, <2>4, <2>5, TakerStepKind
<1>3. ASSUME NEW m \in Markets, Thread(m) \/ Outside(m)  PROVE HedgeWhole'
  BY <1>2, <1>3, Frame DEF FrameOf, HedgeWhole, IsOpen
<1> QED  BY <1>1, <1>3 DEF Next

\* The accounts of the other machines are left alone.
LEMMA AccountFrame ==
    ASSUME "maker" \notin Signals, Faults = {}, Inv, MakerOff,
           NEW m \in Markets, Thread(m) \/ Outside(m), NEW k \in Markets \ {m}
    PROVE  yes'[k] = yes[k] /\ btc'[k] = btc[k]
<1> TypeOK  BY DEF Inv
<1>1. CASE close_position(m)
  BY <1>1 DEF close_position, SubmitClose, TypeOK
<1>2. CASE taker_eval_end(m)
  <2>1. /\ yes' = yes \/ \E y : yes' = [yes EXCEPT ![m] = y]
        /\ btc' = btc \/ \E b : btc' = [btc EXCEPT ![m] = b]
    BY <1>2, FireWorking
  <2> QED  BY <2>1 DEF TypeOK
<1>3. CASE UNCHANGED <<yes, btc>>  BY <1>3
<1> QED  BY <1>1, <1>2, <1>3, TakerStepKind DEF CloseOrQuiet

\* What a machine's own step does to its accounts.
LEMMA OwnFollows ==
    ASSUME "maker" \notin Signals, Faults = {}, Inv, MakerOff, OpenUnclosed,
           ClosingCounted, HedgeWhole, NEW m \in Markets, Thread(m) \/ Outside(m)
    PROVE  FollowsOf(m)
<1> TypeOK  BY DEF Inv
<1>1. CASE close_position(m) /\ pos' = pos  BY <1>1, CloseFollows
<1>2. CASE UNCHANGED <<st, pos, accountVars>>
  <2>1. Live(m)' = Live(m)  BY <1>2 DEF Live
  <2> QED  BY <1>2, <2>1, FollowsUnchanged
<1>3. CASE /\ \E x \in {"TAKER_EVAL", "IDLE"} : st' = [st EXCEPT ![m] = x]
           /\ ~(st[m] = "POSITION_OPEN") /\ UNCHANGED accountVars
  <2>1. Live(m)' = NoPosition /\ Live(m) = NoPosition
    BY <1>3 DEF Live, TypeOK, NoPosition
  <2> QED  BY <1>3, <2>1, FollowsUnchanged
<1>4. CASE taker_eval_end(m)
  <2>1. st[m] = "TAKER_EVAL"  BY <1>4 DEF taker_eval_end, Inv, OrdersMatchState
  <2>2. Live(m) = NoPosition  BY <2>1 DEF Live
  <2>3. CASE st' = [st EXCEPT ![m] = "IDLE"] /\ UNCHANGED <<pos, yes, btc>>
    <3>1. Live(m)' = NoPosition  BY <2>3 DEF Live, TypeOK, NoPosition
    <3> QED  BY <2>2, <2>3, <3>1, FollowsUnchanged
  <2>4. ASSUME NEW size \in Nat, NEW q \in HedgeSizes,
               st' = [st EXCEPT ![m] = "POSITION_OPEN"],
               pos' = [pos EXCEPT ![m] = [size |-> size, hedge |-> FmtQty(q)]],
               yes' = [yes EXCEPT ![m] = yes[m] + size],
               btc' = [btc EXCEPT ![m] = btc[m] + FmtQty(q)]
        PROVE  FollowsOf(m)
    <3>1. Live(m)' = [size |-> size, hedge |-> FmtQty(q)]
      BY <2>4 DEF Live, TypeOK
    <3>2. yes'[m] = yes[m] + size /\ btc'[m] = btc[m] + FmtQty(q)
          /\ yes[m] \in Int /\ btc[m] \in Int
      BY <2>4 DEF TypeOK
    <3>3. FmtQty(q) \in Nat
      <4>1. q \in Nat  BY <2>4, HedgeAssumption DEF HedgeSizes
      <4> QED  BY <4>1, FmtQtyType
    <3> QED  BY <2>2, <3>1, <3>2, <3>3 DEF FollowsOf, NoPosition
  <2>5. ASSUME NEW q \in CutShort,
               st' = [st EXCEPT ![m] = "IDLE"], UNCHANGED <<pos, yes>>,
               btc' = [btc EXCEPT ![m] = btc[m] + FmtQty(q)]
        PROVE  FollowsOf(m)
    <3>1. Live(m)' = NoPosition /\ st'[m] = "IDLE"
      BY <2>5 DEF Live, TypeOK, NoPosition
    <3>2. FmtQty(q) \in Nat
      <4>1. q \in Nat  BY <2>5, HedgeAssumption DEF CutShort, HedgeSizes
      <4> QED  BY <4>1, FmtQtyType
    <3>3. yes'[m] - yes[m] = 0 /\ btc'[m] - btc[m] = FmtQty(q)
      BY <2>5, <3>2 DEF TypeOK
    <3>4. pc[m] = "fire"  BY <1>4 DEF taker_eval_end
    <3> QED  BY <2>2, <2>5, <3>1, <3>3, <3>4 DEF FollowsOf, NoPosition
  <2> QED  BY <1>4, <2>3, <2>4, <2>5, FireWorking
<1>5. CASE CloseOrQuiet(m)
  <2>1. CASE /\ st[m] = "IDLE" /\ st' = [st EXCEPT ![m] = "TAKER_EVAL"]
             /\ UNCHANGED <<pos, accountVars>>
    BY <1>3, <2>1
  <2>2. CASE st[m] = "CLOSING" /\ st' = [st EXCEPT ![m] = "IDLE"] /\ UNCHANGED accountVars
    BY <1>3, <2>2
  <2> QED  BY <1>1, <1>2, <1>5, <2>1, <2>2 DEF CloseOrQuiet
<1> QED  BY <1>4, <1>5, TakerStepKind

AccountStep ==
    \A m \in Markets :
        (closes[m] > 0 /\ closes'[m] > closes[m])
        \/ /\ yes'[m] - yes[m] = Live(m)'.size - Live(m).size
           /\ \/ btc'[m] - btc[m] = Live(m)'.hedge - Live(m).hedge
              \/ /\ pc[m] = "fire" /\ st'[m] = "IDLE"
                 /\ btc'[m] - btc[m] \in {FmtQty(q) : q \in CutShort}

\* For every set of markets and all sizes and hedges: with exchanges that do what
\* they report and taker entries only, no interleaving of entries, exits, flatten
\* requests and expiries makes an account drift from the books, but for repeated
\* closes and for the hedge of an entry whose quantity the cut to three decimals
\* brings below 99 %.
THEOREM AccountsExact ==
    Faults = {} /\ "maker" \notin Signals => (Spec => AccountsFollowBooks)
<1> SUFFICES ASSUME Faults = {}, "maker" \notin Signals
             PROVE  Spec => AccountsFollowBooks
  OBVIOUS
<1> DEFINE I == Inv /\ MakerOff /\ OpenUnclosed /\ ClosingCounted /\ HedgeWhole
<1>1. Init => OpenUnclosed /\ ClosingCounted /\ HedgeWhole
  BY DEF Init, OpenUnclosed, ClosingCounted, HedgeWhole, IsOpen, NoPosition
<1>2. I /\ [Next]_vars => MakerOff' /\ OpenUnclosed' /\ ClosingCounted' /\ HedgeWhole'
  BY MakerOffStep, UnclosedStep, ClosingCountedStep, HedgeWholeStep
<1>3. ASSUME I, [Next]_vars  PROVE [AccountStep]_vars
  <2>1. ASSUME NEW m \in Markets, Thread(m) \/ Outside(m)  PROVE AccountStep
    <3> SUFFICES ASSUME NEW k \in Markets \ {m}  PROVE FollowsOf(k)
      BY <1>3, <2>1, OwnFollows DEF AccountStep, FollowsOf
    <3>1. yes'[k] = yes[k] /\ btc'[k] = btc[k]  BY <1>3, <2>1, AccountFrame
    <3>2. st'[k] = st[k] /\ pos'[k] = pos[k]  BY <1>3, <2>1, Frame DEF FrameOf
    <3>3. Live(k)' = Live(k)  BY <3>2 DEF Live
    <3> QED  BY <1>3, <3>1, <3>3, FollowsUnchanged DEF Inv
  <2> QED  BY <1>3, <2>1 DEF Next
<1> QED
  BY <1>1, <1>2, <1>3, MakerOffInit, Invariance, PTL
  DEF Spec, AccountsFollowBooks, AccountStep
=============================================================================
