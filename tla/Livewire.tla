------------------------------- MODULE Livewire -------------------------------
(***************************************************************************)
(* Livewire: components whose state lives in the page (livewire.hpp, the   *)
(* server, and livewire_client.hpp, the browser).  A root posts an action  *)
(* with its state; the server makes the component anew, overlays the       *)
(* state, runs the action and answers with state and HTML.  Roots post     *)
(* whenever the user acts, so posts overlap and answers come in any order. *)
(***************************************************************************)
EXTENDS Naturals, Sequences, SequencesExt, Text

CONSTANTS
  Root, Parent,   \* component roots, and the root each is nested in (or the Page)
  Page,
  Fields,         \* the fields of a component, as they are serialised
  Typed,          \* what the user types (texts)
  MaxPosts        \* bound

ASSUME WireAssumption == Parent \in [Root -> Root \union {Page}] /\ Page \notin Root

VARIABLES
  state,     \* each root's wire:state
  input,     \* the text in its wire:model input
  shown,     \* the wire:loading elements that are visible
  posts, answers, sent,
  meant,     \* history: the state the user's doings come to, one after the other
  loose      \* history: roots with posts that overlapped, or texts the format cannot hold

wirevars == <<state, input, shown, posts, answers, sent, meant, loose>>

Default == [f \in ToSet(Fields) |-> IF f = "count" THEN <<"0">> ELSE <<>>]

(* The roots querySelectorAll() looks through: r and those inside it, at   *)
(* any depth.                                                              *)
Within(r) ==
  {c \in Root : \A S \in SUBSET Root : r \in S /\ (\A d \in Root : Parent[d] \in S => d \in S) => c \in S}

(* DOMContentLoaded: hideLoading() on every root. *)
WireInit ==
  /\ state = [r \in Root |-> Default] /\ input = [r \in Root |-> <<>>]
  /\ shown = {} /\ posts = {} /\ answers = {} /\ sent = 0
  /\ meant = [r \in Root |-> Default] /\ loose = {}

-----------------------------------------------------------------------------
(* lwjson.  NL, CR and TAB are control characters; n, r and t letters.     *)

Escape == [Q |-> "Q", B |-> "B", NL |-> "n", CR |-> "r", TAB |-> "t"]
esc(s) == FlattenSeq([i \in DOMAIN s |-> IF s[i] \in DOMAIN Escape THEN <<"B", Escape[s[i]]>> ELSE <<s[i]>>])
Quote(s) == <<"Q">> \o esc(s) \o <<"Q">>

object(m) ==
  <<"{">> \o Joined([i \in DOMAIN Fields |-> Quote(<<Fields[i]>>) \o <<":">> \o Quote(m[Fields[i]])], ",")
  \o <<"}">>

(* read_string(): the text from place p to its closing quote. *)
Unescape(n) == IF n = "n" THEN "NL" ELSE IF n = "t" THEN "TAB" ELSE n
read_string(s, p) ==
  LET read[i \in p..(Len(s) + 1)] ==
        IF i > Len(s) \/ s[i] = "Q" THEN [text |-> <<>>, end |-> i]
        ELSE LET escaped == s[i] = "B" /\ i < Len(s)
                 rest == read[IF escaped THEN i + 2 ELSE i + 1]
             IN [rest EXCEPT !.text = <<IF escaped THEN Unescape(s[i + 1]) ELSE s[i]>> \o @]
  IN read[p]

field(s, key) ==
  LET k == FindKey(s, key)
      colon == Find(s, <<":">>, k + 3)
      q == Find(s, <<"Q">>, colon)
  IN IF k = 0 \/ colon = 0 \/ q = 0 THEN <<>> ELSE read_string(s, q + 1).text

(* object_field(): up to the brace that closes the first one, counting     *)
(* those in strings too.                                                   *)
object_field(s, key) ==
  LET k == FindKey(s, key)
      p == Find(s, <<"{">>, k)
      Depth(i) == Len(SelectSeq(SubSeq(s, p, i), LAMBDA c : c = "{"))
                  - Len(SelectSeq(SubSeq(s, p, i), LAMBDA c : c = "}"))
      closing == {i \in p..Len(s) : s[i] = "}" /\ Depth(i) = 0}
  IN IF k = 0 \/ p = 0 \/ closing = {} THEN <<"{", "}">>
     ELSE SubSeq(s, p, CHOOSE i \in closing : \A j \in closing : i <= j)

(* parse_object(): pairs of strings; the last value of a key counts. *)
parse_object(s) ==
  LET pairs[i \in 1..(Len(s) + 2)] ==
        LET q == Find(s, <<"Q">>, i)
            key == read_string(s, q + 1)
            colon == Find(s, <<":">>, key.end)
            v == Find(s, <<"Q">>, colon)
            val == read_string(s, v + 1)
            rest == pairs[val.end + 1]
        IN IF q = 0 \/ colon = 0 \/ v = 0 THEN <<>>
           ELSE [k \in DOMAIN rest \union {key.text[1]} |-> IF k \in DOMAIN rest THEN rest[k] ELSE val.text]
  IN pairs[1]

-----------------------------------------------------------------------------
(* The server.                                                             *)

(* make(), then the posted state on top of the constructor's. *)
Overlay(posted) ==
  [f \in DOMAIN Default \union DOMAIN posted |-> IF f \in DOMAIN posted THEN posted[f] ELSE Default[f]]

(* call(): an action the component has, or none ("$refresh"). *)
Call(s, action) ==
  IF action = <<"increment">> THEN [s EXCEPT !["count"] = <<to_string(stoll(@[1]) + 1)>>] ELSE s

(* handle(): the state after the action.  It goes back in object()'s JSON,  *)
(* which JSON.parse() (external) reads exactly, with HTML that is made     *)
(* from it.                                                                *)
handle(text) ==
  Call(Overlay(parse_object(object_field(text, "state"))), field(text, "action"))

Respond(m) ==
  /\ m \in posts
  /\ posts' = posts \ {m}
  /\ answers' = answers \union {[id |-> m.id, root |-> m.root, action |-> m.action, state |-> handle(m.text)]}
  /\ UNCHANGED <<state, input, shown, sent, meant, loose>>

-----------------------------------------------------------------------------
(* The browser.  A root has a loading element for any action and one for   *)
(* "increment" (wire:target); setLoading() finds those of the roots inside too. *)

Elements(r, action) ==
  Within(r) \X ({"any"} \union (IF action = <<"increment">> THEN {"increment"} ELSE {}))

Busy(r) == \E m \in posts \union answers : m.root = r

(* post(): JSON.stringify() is external, and escapes what esc() does. *)
Payload(action, s) ==
  <<"{">> \o Quote(<<"name">>) \o <<":">> \o Quote(<<"counter">>) \o <<",">> \o Quote(<<"action">>) \o <<":">>
  \o Quote(action) \o <<",">> \o Quote(<<"arg">>) \o <<":">> \o Quote(<<>>) \o <<",">>
  \o Quote(<<"state">>) \o <<":">> \o object(s) \o <<"}">>

Post(r, action, s) ==
  /\ sent < MaxPosts /\ sent' = sent + 1
  /\ posts' = posts \union {[id |-> sent, root |-> r, action |-> action, text |-> Payload(action, s)]}
  /\ shown' = shown \union Elements(r, action)

Holds(t) == ToSet(t) \intersect {"{", "}", "CR"} = {}

click(r) ==
  /\ Post(r, <<"increment">>, state[r])
  /\ loose' = IF Busy(r) THEN loose \union {r} ELSE loose
  /\ UNCHANGED <<state, input, answers, meant>>

(* The input handler: the model field is set in the page, then refreshed. *)
Input(r, t) ==
  /\ state' = [state EXCEPT ![r]["name"] = t]
  /\ input' = [input EXCEPT ![r] = t]
  /\ Post(r, <<"refresh">>, state'[r])
  /\ meant' = [meant EXCEPT ![r]["name"] = t]
  /\ loose' = IF Busy(r) \/ ~Holds(t) THEN loose \union {r} ELSE loose
  /\ UNCHANGED answers

(* Mutant: nested components are patched like everything else. *)
MutMorphed(r, s) == [c \in Root |-> IF c = r THEN s ELSE IF c \in Within(r) THEN Default ELSE state[c]]

(* setState() and morph(): nested roots are left as they are. *)
Morphed(r, s) == [c \in Root |-> IF c = r THEN s ELSE state[c]]

(* The answer's then-clauses: state, morph(), which takes the style away    *)
(* from the root's loading elements, and setLoading(false).  An input that *)
(* has the focus keeps its text.                                           *)
Apply(m, focused) ==
  LET s == m.state IN
  /\ m \in answers /\ answers' = answers \ {m}
  /\ state' = Morphed(m.root, s)
  /\ input' = IF focused THEN input ELSE [input EXCEPT ![m.root] = s["name"]]
  /\ shown' = (shown \union ({m.root} \X {"any", "increment"})) \ Elements(m.root, m.action)
  /\ meant' = [meant EXCEPT ![m.root] = Call(@, m.action)]
  /\ UNCHANGED <<posts, sent, loose>>

(* Mutant: a failed post leaves the indicator on. *)
MutFail(m) ==
  /\ m \in posts \union answers
  /\ posts' = posts \ {m} /\ answers' = answers \ {m}
  /\ UNCHANGED <<state, input, shown, sent, meant, loose>>

(* fetch() fails, before or after the server has handled the post, or the  *)
(* answer is not JSON.                                                     *)
Fail(m) ==
  /\ m \in posts \union answers
  /\ posts' = posts \ {m} /\ answers' = answers \ {m}
  /\ shown' = shown \ Elements(m.root, m.action)
  /\ UNCHANGED <<state, input, sent, meant, loose>>

WireNext ==
  \/ \E r \in Root : click(r) \/ \E t \in Typed : Input(r, t)
  \/ \E m \in posts : Respond(m)
  \/ \E m \in answers, focused \in BOOLEAN : Apply(m, focused)
  \/ \E m \in posts \union answers : Fail(m)

WireSpec == WireInit /\ [][WireNext]_wirevars

-----------------------------------------------------------------------------
(* Correctness.                                                            *)

(* A root whose posts do not overlap loses nothing: its state is what the  *)
(* user did, clicks that failed aside, with every text carried through     *)
(* both JSON readers as it was typed, and its input shows the model,       *)
(* whatever other roots do meanwhile: "a parent re-render never clobbers a *)
(* child's live state".                                                    *)
NothingLost ==
  \A r \in Root \ loose : state[r] = meant[r] /\ input[r] = state[r]["name"]

(* "show matching elements only while a request is in flight": when none   *)
(* of a root, or of a root it lies inside, is, the indicator without a     *)
(* target is hidden, in whatever order posts were answered or failed.      *)
LoadingEnds ==
  \A r \in Root : (\A a \in Root : r \in Within(a) => ~Busy(a)) => <<r, "any">> \notin shown
===============================================================================
