------------------------------- MODULE MCMocks ------------------------------
EXTENDS Mocks

(* Requests of two and of three fragments; device1 is in the first session *)
(* of each proxy.                                                          *)
ToTheMock == [device: {mocked}, size: {2, 3}, ok: {TRUE}]

(* The lines of test/acceptance_scenarios/delay.txt, and lines with an     *)
(* earlier count, another session or another type.                         *)
DeviceLines ==
    [type: {"ACK"}, session: {1}, count: {3, 2, 1}]
    \cup [type: {"ACK", "DATA", "ERROR"}, session: {2}, count: {1}]
    \cup [type: {"usleep", "NACK"}, session: {0}, count: {0}]

(* Data and other packets of two sessions, counts as a proxy sends them,   *)
(* and the lines that are no packets.                                      *)
ProxyLines ==
    [type: {"DATA"}, session: {1, 2}, count: {1, 2, 3}]
    \cup [type: {"ACK", "ERROR"}, session: {1}, count: {1, 2}]
    \cup [type: {"usleep", "NACK"}, session: {0}, count: {0}]
=============================================================================
