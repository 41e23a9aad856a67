------------------------- MODULE FeedManager_proofs -------------------------
(***************************************************************************)
(* The fault levels of FeedManager, for every set of feeds and all         *)
(* thresholds: what the monitor and push_tick make of each other.          *)
(***************************************************************************)
EXTENDS FeedManager, TLAPS

FaultLevels == {"NOMINAL", "DEGRADED", "REST_FALLBACK", "EMERGENCY_FLATTEN"}

\* The types of what push_tick and the monitor write.
FeedTypeOK ==
    /\ age \in [Sources -> Nat \cup {Never}]
    /\ fault \in [Sources -> FaultLevels]
    /\ low \in [Sources -> Nat]

\* A tick carries the source it was parsed for.
LEMMA SourceOfTick ==
    ASSUME NEW s \in Sources, NEW p, NEW q, NEW t \in TicksOf(s, p, q) \ {NoTick}
    PROVE  t.source = s
<1>1. CASE s = "BINANCE"
  <2>1. t \in {parse_binance_depth(b, p) : b \in Books} \cup {parse_binance_trade}
    BY <1>1 DEF TicksOf
  <2>2. CASE t = parse_binance_trade  BY <1>1, <2>2 DEF parse_binance_trade
  <2>3. ASSUME NEW b \in Books, t = parse_binance_depth(b, p)  PROVE t.source = s
    BY <1>1, <2>3 DEF parse_binance_depth
  <2> QED  BY <2>1, <2>2, <2>3
<1>2. CASE s = "COINBASE"
  <2>1. t \in {parse_coinbase_ticker(b, p, x) : b \in Books, x \in BOOLEAN}
    BY <1>2 DEF TicksOf
  <2>2. ASSUME NEW b \in Books, NEW x \in BOOLEAN, t = parse_coinbase_ticker(b, p, x)
        PROVE  t.source = s
    BY <1>2, <2>2 DEF parse_coinbase_ticker
  <2> QED  BY <2>1, <2>2
<1>3. CASE s = "POLYMARKET"
  <2>1. t \in {parse_polymarket_book(b, q) : b \in Books}
               \cup {parse_polymarket_price_change(b, q) : b \in Books}
    BY <1>3 DEF TicksOf
  <2>2. ASSUME NEW b \in Books, t = parse_polymarket_book(b, q)  PROVE t.source = s
    BY <1>3, <2>2 DEF parse_polymarket_book
  <2>3. ASSUME NEW b \in Books, t = parse_polymarket_price_change(b, q)
        PROVE  t.source = s
    BY <1>3, <2>3 DEF parse_polymarket_price_change
  <2> QED  BY <2>1, <2>2, <2>3
<1> QED  BY <1>1, <1>2, <1>3, FeedAssumption

\* A step leaves the fault levels alone, or pushes one tick of one source, or
\* checks all levels.
StepKinds ==
    \/ UNCHANGED <<age, fault, low>>
    \/ \E t : t.source \in Sources /\ push_tick(t)
    \/ \E s \in Sources : age' = [age EXCEPT ![s] = 0] /\ UNCHANGED <<fault, low>>
    \/ fault' = Checked /\ UNCHANGED <<age, low>>
    \/ AdvanceTime

LEMMA StepKind == [Next]_feedVars => StepKinds
<1> SUFFICES ASSUME [Next]_feedVars  PROVE StepKinds
  OBVIOUS
<1>1. CASE UNCHANGED feedVars  BY <1>1 DEF feedVars, StepKinds
<1>2. CASE run \/ stop \/ Consume  BY <1>2 DEF run, stop, Consume, StepKinds
<1>3. CASE fault_check  BY <1>3 DEF fault_check, StepKinds
<1>4. CASE AdvanceTime  BY <1>4 DEF StepKinds
<1>5. ASSUME NEW s \in Sources, Connection(s)  PROVE StepKinds
  <2>1. CASE connect_ok(s) \/ connect_fail(s) \/ read_error(s) \/ backoff_end(s)
             \/ mark_price_throws(s)
    BY <2>1 DEF connect_ok, connect_fail, read_error, backoff_end, mark_price_throws,
       StepKinds
  <2>2. CASE read_message(s)
    <3>1. ASSUME NEW p \in Prices, NEW q \in Odds,
                 NEW t \in TicksOf(s, p, q) \ {NoTick}, push_tick(t)
          PROVE  StepKinds
      <4>1. t.source \in Sources  BY SourceOfTick
      <4> QED  BY <3>1, <4>1 DEF StepKinds
    <3>2. CASE MarkPrice(s)  BY <3>2 DEF MarkPrice, StepKinds
    <3>3. CASE Ignored  BY <3>3 DEF Ignored, StepKinds
    <3> QED  BY <2>2, <3>1, <3>2, <3>3 DEF read_message, dispatch
  <2> QED  BY <1>5, <2>1, <2>2 DEF Connection
<1> QED  BY <1>1, <1>2, <1>3, <1>4, <1>5 DEF Next

\* The monitor only ever stores one of the four levels.
LEMMA LevelType == ASSUME NEW a \in Nat  PROVE Level(a) \in FaultLevels
  BY FeedAssumption DEF Level, FaultLevels

LEMMA FeedTypeInit == Init => FeedTypeOK
  BY DEF Init, FeedTypeOK, FaultLevels

LEMMA FeedTypeStep == FeedTypeOK /\ StepKinds => FeedTypeOK'
<1> SUFFICES ASSUME FeedTypeOK, StepKinds  PROVE FeedTypeOK'
  OBVIOUS
<1>1. CASE UNCHANGED <<age, fault, low>>  BY <1>1 DEF FeedTypeOK
<1>2. ASSUME NEW t, t.source \in Sources, push_tick(t)  PROVE FeedTypeOK'
  <2>1. LowAfter(t) \in Nat  BY <1>2 DEF FeedTypeOK, LowAfter
  <2>2. age' \in [Sources -> Nat \cup {Never}]  BY <1>2 DEF FeedTypeOK, push_tick
  <2>3. low' \in [Sources -> Nat]  BY <1>2, <2>1 DEF FeedTypeOK, push_tick
  <2>4. fault' \in [Sources -> FaultLevels]
    BY <1>2 DEF FeedTypeOK, push_tick, FaultLevels
  <2> QED  BY <2>2, <2>3, <2>4 DEF FeedTypeOK
<1>3. ASSUME NEW s \in Sources, age' = [age EXCEPT ![s] = 0], UNCHANGED <<fault, low>>
      PROVE  FeedTypeOK'
  BY <1>3 DEF FeedTypeOK
<1>4. CASE fault' = Checked /\ UNCHANGED <<age, low>>
  <2>1. ASSUME NEW s \in Sources
        PROVE  (IF age[s] = Never THEN fault[s] ELSE Level(age[s])) \in FaultLevels
    BY LevelType DEF FeedTypeOK
  <2>2. Checked \in [Sources -> FaultLevels]  BY <2>1 DEF Checked
  <2> QED  BY <1>4, <2>2 DEF FeedTypeOK
<1>5. CASE AdvanceTime
  <2>1. ASSUME NEW s \in Sources
        PROVE  (IF age[s] \in {Never, Silent} THEN age[s] ELSE age[s] + 1)
                   \in Nat \cup {Never}
    BY DEF FeedTypeOK
  <2> QED  BY <1>5, <2>1 DEF AdvanceTime, FeedTypeOK
<1> QED  BY <1>1, <1>2, <1>3, <1>4, <1>5 DEF StepKinds

-----------------------------------------------------------------------------
\* A feed that has delivered nothing is at NOMINAL for ever: the monitor skips
\* it, and push_tick raises a level only for a feed it has just heard.
THEOREM UnheardNominal == Spec => []UnheardStaysNominal
<1> DEFINE Inv == FeedTypeOK /\ UnheardStaysNominal
<1>1. Init => Inv
  BY FeedTypeInit DEF Init, UnheardStaysNominal
<1>2. Inv /\ [Next]_feedVars => Inv'
  <2> SUFFICES ASSUME FeedTypeOK, UnheardStaysNominal, StepKinds
               PROVE  UnheardStaysNominal'
    BY StepKind, FeedTypeStep
  <2> SUFFICES ASSUME NEW s \in Sources, age'[s] = Never  PROVE fault'[s] = "NOMINAL"
    BY DEF UnheardStaysNominal
  <2>1. CASE UNCHANGED <<age, fault, low>>  BY <2>1 DEF UnheardStaysNominal
  <2>2. ASSUME NEW t, t.source \in Sources, push_tick(t)  PROVE fault'[s] = "NOMINAL"
    <3>1. s # t.source  BY <2>2 DEF push_tick, FeedTypeOK, Never
    <3>2. age'[s] = age[s] /\ fault'[s] = fault[s]
      BY <2>2, <3>1 DEF push_tick, FeedTypeOK
    <3> QED  BY <3>2 DEF UnheardStaysNominal
  <2>3. ASSUME NEW r \in Sources, age' = [age EXCEPT ![r] = 0], UNCHANGED <<fault, low>>
        PROVE  fault'[s] = "NOMINAL"
    BY <2>3 DEF FeedTypeOK, UnheardStaysNominal, Never
  <2>4. CASE fault' = Checked /\ UNCHANGED <<age, low>>
    BY <2>4 DEF Checked, UnheardStaysNominal
  <2>5. CASE AdvanceTime
    <3>1. age[s] = Never  BY <2>5 DEF AdvanceTime, FeedTypeOK, Never
    <3> QED  BY <2>5, <3>1 DEF AdvanceTime, UnheardStaysNominal
  <2> QED  BY <2>1, <2>2, <2>3, <2>4, <2>5 DEF StepKinds
<1>3. Inv => UnheardStaysNominal  OBVIOUS
<1> QED  BY <1>1, <1>2, <1>3, PTL DEF Spec

\* The two writers of a level do not undo each other: for all feeds and thresholds,
\* thin books only raise it, and what the monitor lowers it to is due to a message.
THEOREM LoweredByMonitorOnly == Spec => EscalationNeverLowers
<1> DEFINE Step == \A s \in Sources :
          Severity[fault'[s]] < Severity[fault[s]] =>
              age'[s] = age[s] /\ fault'[s] = Level(age[s])
<1>1. FeedTypeOK /\ [Next]_feedVars => FeedTypeOK'
  BY StepKind, FeedTypeStep
<1>2. FeedTypeOK /\ [Next]_feedVars => [Step]_feedVars
  <2> SUFFICES ASSUME FeedTypeOK, StepKinds, NEW s \in Sources,
                      Severity[fault'[s]] < Severity[fault[s]]
               PROVE  age'[s] = age[s] /\ fault'[s] = Level(age[s])
    BY StepKind
  <2>0. fault[s] \in FaultLevels  BY DEF FeedTypeOK
  <2>1. fault'[s] # fault[s]
    BY <2>0 DEF FaultLevels, Severity
  <2>2. CASE UNCHANGED <<age, fault, low>>  BY <2>1, <2>2
  <2>3. ASSUME NEW t, t.source \in Sources, push_tick(t)  PROVE FALSE
    <3>1. RaisesLevel(t) /\ fault' = [fault EXCEPT ![t.source] = "DEGRADED"]
      BY <2>1, <2>3 DEF push_tick
    <3>2. s = t.source  BY <2>1, <2>3, <3>1 DEF FeedTypeOK
    <3>3. fault[s] = "NOMINAL" /\ fault'[s] = "DEGRADED"
      BY <2>3, <3>1, <3>2 DEF RaisesLevel, FeedTypeOK
    <3> QED  BY <3>3 DEF Severity
  <2>4. ASSUME NEW x \in Sources, age' = [age EXCEPT ![x] = 0], UNCHANGED <<fault, low>>
        PROVE  FALSE
    BY <2>1, <2>4
  <2>5. CASE fault' = Checked /\ UNCHANGED <<age, low>>
    BY <2>1, <2>5 DEF Checked
  <2>6. CASE AdvanceTime  BY <2>1, <2>6 DEF AdvanceTime
  <2> QED  BY <2>2, <2>3, <2>4, <2>5, <2>6 DEF StepKinds
<1> QED  BY <1>1, <1>2, FeedTypeInit, PTL DEF Spec, EscalationNeverLowers
=============================================================================
