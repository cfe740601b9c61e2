---------------------------------- MODULE Text ----------------------------------
(***************************************************************************)
(* Texts as the string-searching readers of token.hpp and livewire.hpp see *)
(* them: sequences of symbols, a symbol for each word and for each         *)
(* character that is looked for.  Q is the quote, B the backslash.         *)
(***************************************************************************)
EXTENDS Naturals, Sequences, SequencesExt

(* std::string::find(): the first place at or after `from` where s holds w; *)
(* 0 is npos.                                                              *)
Find(s, w, from) ==
  LET hits == {i \in from..(Len(s) - Len(w) + 1) : SubSeq(s, i, i + Len(w) - 1) = w}
  IN IF hits = {} THEN 0 ELSE CHOOSE i \in hits : \A j \in hits : i <= j

FindKey(j, key) == Find(j, <<"Q", key, "Q">>, 1)

(* std::to_string() and std::stoll(): a number is one symbol, and what is  *)
(* not one reads as 0.                                                     *)
Numeral == <<"1", "2", "3", "4", "5", "6", "7", "8", "9">>
to_string(n) == IF n = 0 THEN "0" ELSE Numeral[n]
stoll(w) == SelectInSeq(Numeral, LAMBDA x : x = w)

(* Joins texts with a symbol between them. *)
Joined(texts, sep) == FlattenSeq([i \in DOMAIN texts |-> (IF i > 1 THEN <<sep>> ELSE <<>>) \o texts[i]])
=================================================================================
