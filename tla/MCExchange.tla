------------------------------ MODULE MCExchange ------------------------------
(***************************************************************************)
(* Instances of Exchange.tla.  Bytes are numbers, 0 the padding.            *)
(***************************************************************************)
EXTENDS Exchange

Bytes  == 0..6
Prefix == <<1, 2>>
Suffix == <<3, 4>>

\* Contents that are empty, cut and extended.
Files == {<<>>, <<5>>, <<6, 5, 6>>}

===============================================================================
