----------------------------- MODULE MCCoupons -----------------------------
(* Small instances of Coupons for TLC.                                     *)
EXTENDS Coupons

CONSTANTS r1, cron

(* The coupons do not depend on the parts.                                 *)
NoParts == <<>>

Home(market) == [market |-> market, side |-> "home"]

OneBet == {Home(Half1)}

(* Two halves; the match is played to its end.                             *)
Regular ==
    [s \in Statuses |-> CASE s = "1H" -> {"HT"} [] s = "HT" -> {"2H"} [] s = "2H" -> {"FT"}
                          [] OTHER -> {}]

(* The rows of apifootball are LIVE in both halves, and resolveOutcome     *)
(* takes LIVE for the first: a goal of the second half wins a bet on the   *)
(* first, although the row holds the score at half time.                   *)
ASSUME LiveIsFirstHalf ==
    LET secondHalf == [status |-> "LIVE", score |-> [home |-> 1, away |-> 0],
                       ht |-> [home |-> 0, away |-> 0]]
    IN  ResolveOutcome(secondHalf, Home(Half1)) = "WON"

(* This match is one of those that outcomes are proved right for.          *)
ASSUME RegularIsPlayedThrough == PlayedThrough
=============================================================================
