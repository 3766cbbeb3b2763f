-------------------------- MODULE MCTableRecovery ---------------------------
(* Small ranges for TableRecovery.                                          *)
EXTENDS TableRecovery

\* A source connector with archived rows and a range to replay, and one with
\* neither.
PairStart == <<1, 0>>
PairTarget == <<3, 0>>
PairEnd == <<4, 1>>

\* One with archived rows and a range.
SingleStart == <<1>>
SingleTarget == <<2>>
SingleEnd == <<3>>
=============================================================================
