------------------------------ MODULE MCBrowser ------------------------------
(* The TLC instance of Livewire and StaticFiles, the two ways in which a    *)
(* browser holds what the server gave it: a behaviour is about one of them. *)
EXTENDS Livewire, StaticFiles, TLC

VARIABLE holds

Nesting == "panel" :> Page @@ "child" :> "panel" @@ "leaf" :> "child"
FieldSeq == <<"name", "count">>
Texts == {<<"a">>, <<"B", "Q", "n">>, <<"NL", "TAB">>, <<"}">>, <<"CR">>}
SizeSeq == <<3, 1, 3, -1, 0>>
Ranges == {Blank, Other, Malformed} \union ({Blank, 0, 1, 2, 4, 5} \X {Blank, 0, 1, 2, 4, 5})

MCInit == WireInit /\ FilesInit /\ holds \in {"components", "files"}

MCNext ==
  \/ holds = "components" /\ WireNext /\ UNCHANGED <<filevars, holds>>
  \/ holds = "files" /\ FilesNext /\ UNCHANGED <<wirevars, holds>>

MCSpec == MCInit /\ [][MCNext]_<<wirevars, filevars, holds>>
===============================================================================
