------------------------------- MODULE MCTINs -------------------------------
(***************************************************************************)
(* Instances of Restarts for TLC: the requests clients send in each run.   *)
(***************************************************************************)
EXTENDS Restarts

CONSTANTS d0, d1, d2

(* Any of three devices or an unknown one; one request has too many        *)
(* fragments for MaxCount = 2.                                             *)
AnyRequest ==
    [device: {d0, d1, d2, NoDevice}, size: {1, 2, 3}, ok: {TRUE}]
    \cup [device: {d0}, size: {1, 2}, ok: {FALSE}]

(* Requests of one or two fragments to one device.                         *)
Short == [device: {d0}, size: {1, 2}, ok: {TRUE}]

(* Requests of one or three fragments, some of them text that does not     *)
(* parse.                                                                  *)
AnyText == [device: {d0}, size: {1, 3}, ok: BOOLEAN]
=============================================================================
