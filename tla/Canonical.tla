------------------------------- MODULE Canonical -------------------------------
(***************************************************************************)
(* src/src/canonical.js, and the way a signed value takes: the issuer      *)
(* signs the canonical form (events.js, escrow.js), the value travels as   *)
(* ordinary JSON, somebody may change it, and the verifier forms the       *)
(* canonical text, twice (gate CANONICALIZATION), and checks the signature *)
(* over it.                                                                *)
(*                                                                         *)
(* Strings are numbers, in the order in which JavaScript sorts them, and   *)
(* NFC is what normalize does with them.  A JavaScript value is            *)
(*                                                                         *)
(*   [kind |-> "string", text]     [kind |-> "list", items]                *)
(*   [kind |-> "number", n]        [kind |-> "object", fields]             *)
(*   [kind |-> "null"]             [kind |-> "exotic"]                     *)
(*                                                                         *)
(* where `fields' gives each key a value or is Absent there, and exotic is *)
(* undefined, a function or a fraction.  A JSON text is the same but for   *)
(* the members of an object, which are a sequence of <<key, text>>.        *)
(***************************************************************************)
EXTENDS Integers, Sequences, Ordering

CONSTANTS
  Strings,   \* a set of numbers
  NFC,       \* NFC[s]: the normal form of s
  MAX_SAFE,  \* Number.MAX_SAFE_INTEGER
  MAX_DEPTH,
  NESTING,   \* how deeply any value is nested
  Values     \* the values that are issued

Absent == [kind |-> "absent"]

JSONAtoms ==
  [kind : {"string"}, text : Strings] \union [kind : {"number"}, n : Int] \union {[kind |-> "null"]}
Atoms == JSONAtoms \union {[kind |-> "exotic"]}

\* The values whose parts are in a set, and the JSON texts.
ValuesOver(S) ==
  Atoms \union [kind : {"list"}, items : Seq(S)]
    \union [kind : {"object"}, fields : [Strings -> S \union {Absent}]]
TextsOver(S) ==
  JSONAtoms \union [kind : {"list"}, items : Seq(S)]
    \union [kind : {"object"}, members : Seq(Strings \X S)]

\* Those that are nested at most n deep.
Nested[n \in 0 .. NESTING] == IF n = 0 THEN Atoms ELSE ValuesOver(Nested[n - 1])
Texts[n \in 0 .. NESTING] == IF n = 0 THEN JSONAtoms ELSE TextsOver(Texts[n - 1])

ASSUME CanonicalAssumption ==
  /\ Strings \subseteq Nat /\ IsFiniteSet(Strings)
  /\ NFC \in [Strings -> Strings]
  /\ \A s \in Strings : NFC[NFC[s]] = NFC[s]
  /\ MAX_SAFE \in Nat /\ MAX_DEPTH \in Nat /\ NESTING \in Nat
  /\ Values \subseteq Nested[NESTING]

VARIABLES
  issued,   \* the value that was signed
  letter,   \* the value that arrives
  outcome   \* what the verifier finds

wireVars == <<issued, letter, outcome>>

NoLetter == [kind |-> "none"]
Error == [kind |-> "error"]
-------------------------------------------------------------------------------
(* canonicalize *)

\* Object.keys
Keys(fields) == {k \in DOMAIN fields : fields[k] # Absent}

\* Mutants: what JSON cannot say becomes null, as with JSON.stringify; keys are
\* sorted as they come.
scalar_asJSON(value) ==
  CASE value.kind = "string" -> [kind |-> "string", text |-> NFC[value.text]]
    [] value.kind = "exotic" -> [kind |-> "null"]
    [] OTHER -> value
SortedKeys_raw(fields) ==
  LET K == Keys(fields) IN InOrder(K, {jk \in K \X K : jk[1] < jk[2]})

scalar(value) ==
  CASE value.kind = "string" -> [kind |-> "string", text |-> NFC[value.text]]
    [] value.kind = "null" \/ (value.kind = "number" /\ value.n \in 0 .. MAX_SAFE) -> value
    [] OTHER -> Error

\* Two keys with one normal form.
Collides(fields) == \E j, k \in Keys(fields) : j # k /\ NFC[j] = NFC[k]

\* The keys in the order of their normal forms.
SortedKeys(fields) ==
  LET K == Keys(fields)
      Before(j, k) == NFC[j] < NFC[k] \/ (NFC[j] = NFC[k] /\ j < k)
  IN InOrder(K, {jk \in K \X K : Before(jk[1], jk[2])})

\* The first error aborts everything.
AllGood(texts) == \A i \in DOMAIN texts : texts[i] # Error

\* One call of canonicalize; inner is what the calls for the parts return.
textOf(value, depth, inner) ==
  IF depth > MAX_DEPTH THEN Error
  ELSE CASE value.kind = "list" ->
              LET texts == [i \in DOMAIN value.items |-> inner[value.items[i]][depth + 1]]
              IN IF AllGood(texts) THEN [kind |-> "list", items |-> texts] ELSE Error
         [] value.kind = "object" ->
              LET keys == SortedKeys(value.fields)
                  texts == [i \in DOMAIN keys |-> inner[value.fields[keys[i]]][depth + 1]]
              IN IF ~Collides(value.fields) /\ AllGood(texts)
                 THEN [kind |-> "object",
                       members |-> [i \in DOMAIN keys |-> <<NFC[keys[i]], texts[i]>>]]
                 ELSE Error
         [] OTHER -> scalar(value)

CanonicalForm[n \in 0 .. NESTING] ==
  [value \in Nested[n] |->
     [depth \in 0 .. MAX_DEPTH + 1 |->
        textOf(value, depth, IF n = 0 THEN <<>> ELSE CanonicalForm[n - 1])]]

canonicalize(value, depth) == CanonicalForm[NESTING][value][depth]

\* JSON.parse: of several members with one key the last is kept.
valueOf(text, inner) ==
  CASE text.kind = "list" -> [kind |-> "list", items |-> [i \in DOMAIN text.items |-> inner[text.items[i]]]]
    [] text.kind = "object" ->
         LET I == DOMAIN text.members
             Latest(k) == CHOOSE i \in I : /\ text.members[i][1] = k
                                           /\ \A j \in I : text.members[j][1] = k => j <= i
         IN [kind |-> "object",
             fields |-> [k \in Strings |-> IF \E i \in I : text.members[i][1] = k
                                       THEN inner[text.members[Latest(k)][2]] ELSE Absent]]
    [] OTHER -> text

Parsed[n \in 0 .. NESTING] ==
  [text \in Texts[n] |-> valueOf(text, IF n = 0 THEN <<>> ELSE Parsed[n - 1])]

parse(text) == Parsed[NESTING][text]

isCanonical(text) == canonicalize(parse(text), 0) = text
-------------------------------------------------------------------------------
(* The way of a signed value *)

WireInit == issued = NoLetter /\ letter = NoLetter /\ outcome = "none"

\* signEvent, createRevocationAttestation: nothing is signed that has no canonical form.
Sign ==
  /\ issued = NoLetter
  /\ \E value \in Values :
       /\ canonicalize(value, 0) # Error
       /\ issued' = value /\ letter' = value
  /\ UNCHANGED outcome

\* Another value takes its place, under the same signature.
Replace ==
  /\ issued # NoLetter /\ outcome = "none" /\ letter = issued
  /\ letter' \in Values \ {issued}
  /\ UNCHANGED <<issued, outcome>>

\* The gates CANONICALIZATION and SIGNATURE.
Check ==
  /\ letter # NoLetter /\ outcome = "none"
  /\ LET c1 == canonicalize(letter, 0) IN
       outcome' = IF c1 = Error \/ ~isCanonical(c1) THEN "CANONICALIZATION"
                  ELSE IF c1 # canonicalize(issued, 0) THEN "SIGNATURE" ELSE "verified"
  /\ UNCHANGED <<issued, letter>>

\* The next value.
Dismiss ==
  /\ outcome # "none"
  /\ issued' = NoLetter /\ letter' = NoLetter /\ outcome' = "none"

WireNext == Sign \/ Replace \/ Check \/ Dismiss

WireSpec == WireInit /\ [][WireNext]_wireVars
-------------------------------------------------------------------------------
(* Properties *)

\* What a value means: every string in normal form, and no field more or less.
meaningOf(value, inner) ==
  CASE value.kind = "string" -> [kind |-> "string", text |-> NFC[value.text]]
    [] value.kind = "list" ->
         [kind |-> "list", items |-> [i \in DOMAIN value.items |-> inner[value.items[i]]]]
    [] value.kind = "object" ->
         [kind |-> "object",
          fields |-> {<<NFC[k], inner[value.fields[k]]>> : k \in Keys(value.fields)},
          count |-> Cardinality(Keys(value.fields))]
    [] OTHER -> value

Meanings[n \in 0 .. NESTING] ==
  [value \in Nested[n] |-> meaningOf(value, IF n = 0 THEN <<>> ELSE Meanings[n - 1])]

Meaning(value) == Meanings[NESTING][value]

\* canonical.js:45-46: sorted by their NFC forms, keys make "the canonical form ...
\* idempotent under parse -> canonicalize".  So what could be signed and arrives
\* unchanged passes both gates, whatever its keys look like before normalization.
SignedValuesVerify == outcome # "none" /\ letter = issued => outcome = "verified"

\* One canonical form never stands for two values: what is verified under a
\* signature means, field by field, what its issuer signed.
VerifiedMeansSigned == outcome = "verified" => Meaning(letter) = Meaning(issued)
===============================================================================
