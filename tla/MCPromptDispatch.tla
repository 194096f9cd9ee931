-------------------------- MODULE MCPromptDispatch --------------------------
(***************************************************************************)
(* An instance of PromptDispatch in ticks of ten seconds.                    *)
(***************************************************************************)
EXTENDS PromptDispatch, TLC

CONSTANTS m1, m2, m3, m4, m5, m6, m7, w1, w2

\* Rows of one intent, due and created at the same instant: the rank is their
\* order by id, which ends the dispatcher's ORDER BY.
Seven == {m1, m2, m3, m4, m5, m6, m7}
RankById == m1 :> 1 @@ m2 :> 2 @@ m3 :> 3 @@ m4 :> 4 @@ m5 :> 5 @@ m6 :> 6 @@ m7 :> 7

\* Two replicas whose timers fire a minute apart.
AMinuteApart == w1 :> 0 @@ w2 :> 6

SymTokens == Permutations(Token)
=============================================================================
