----------------------------- MODULE MCScreening ------------------------------
(* A small instance of the sanctions screening: one wallet that is listed,    *)
(* one that is not, and what TRM may say of them.                             *)
EXTENDS Screening

MCReports == {<<>>, <<"stolen", "mixer">>, <<"mixer", "stolen">>, <<"mixer", "sanctioned">>}
=============================================================================
