------------------------------ MODULE MCArtisan ------------------------------
(* The TLC instance of Artisan: a daily task, a heartbeat that throws, a    *)
(* daily task behind it, and one whose time is an hour without a colon.     *)
EXTENDS Artisan

TableCounts == <<1, 1, 3>>

Registered == <<"nightly", "beat", "report", "early">>
Beat == [beat |-> 2]
Times == [nightly |-> [hour |-> 1, colon |-> TRUE], report |-> [hour |-> 3, colon |-> TRUE],
          early |-> [hour |-> 2, colon |-> FALSE]]
===============================================================================
