-------------------------- MODULE MCBacktestRunner --------------------------
EXTENDS BacktestRunner, Functions

\* Two windows, 6..12 and 12..18, after a first tick at 5.  Ticks at the open, in
\* the entry phase, at the deadline, after it, at the resolution and beyond.
MCMay == [t \in {5, 6, 7, 8, 9, 11, 12, 13, 15, 18, 19} |->
            CASE t = 5 -> {"BINANCE"}
              [] t \in {8, 9, 11, 15} -> {"none", "POLYMARKET"}
              [] t \in {6, 7, 12, 13} -> {"none", "BINANCE"}
              [] OTHER -> {"none", "BINANCE", "POLYMARKET"}]

MCTickFiles ==
    LET Sources == UNION {MCMay[t] : t \in DOMAIN MCMay}
        Chosen == {f \in [DOMAIN MCMay -> Sources] : \A t \in DOMAIN f : f[t] \in MCMay[t]}
    IN  {Restrict(f, {t \in DOMAIN f : f[t] # "none"}) : f \in Chosen}

MCPnls == {-6, -5, 0, 2}
=============================================================================
