------------------------------ MODULE Matching ------------------------------
(***************************************************************************)
(* A payload being written, field by field, as the Adapters and            *)
(* `test --field` write one (internal/rule/evaluate.go, internal/harness/  *)
(* example.go), and a rule that is asked of it.                            *)
(*                                                                         *)
(* A rule is a kind, "" for any, a sequence of conditions, and the fields  *)
(* its terms name, each once; a condition is a set of terms, one of which  *)
(* must be met.  A term's operator and value are the set of values it      *)
(* hits, and its not_ is a flag.                                           *)
(***************************************************************************)
EXTENDS Payload

CONSTANTS RuleChoices,  \* the rules asked, in a sequence
          Values,       \* for each field a caller writes, the values, None the empty one
          MaxCalls      \* bound: writes into one payload

\* Each field the conditions name.
Terms(r) == UNION {r.conditions[i] : i \in DOMAIN r.conditions}
Named(r) == {t.field : t \in Terms(r)}

ASSUME CallsAssumption == MaxCalls \in Nat
ASSUME ValuesAssumption == DOMAIN Values \subseteq Fields \ {"domain"}
ASSUME RulesAssumption == \A asking \in DOMAIN RuleChoices : LET r == RuleChoices[asking] IN
  /\ r.fields \in Seq(Fields) /\ Range(r.fields) = Named(r)
  /\ \A i, j \in DOMAIN r.fields : r.fields[i] = r.fields[j] => i = j
  /\ \A t \in Terms(r) : t.neg \in BOOLEAN
ASSUME ReadAssumption == \A l \in Values["command"] : LET of == ReadLine[l] IN
  /\ of.parsed \in BOOLEAN /\ IsSequence(of.files)
  /\ IsSequence(of.read) /\ \A i \in DOMAIN of.read : of.read[i] # <<>>

VARIABLES
  payloads,  \* the call's payloads
  asked,     \* which of the rules is asked
  lost,      \* the load lost rules
  calls,     \* writes so far
  written,   \* the fields test --field wrote last
  hurt       \* test --field wrote unreadable itself

vars == <<payloads, asked, lost, calls, written, hurt>>

rule == RuleChoices[asked]

\* The payload written: the call's own, before those of its edits.
payload == IF payloads = <<>> THEN Empty ELSE payloads[1]

Init ==
  /\ \E k \in {"shell", "other"} : payloads = <<[Empty EXCEPT !.kind = k]>>
  /\ asked \in DOMAIN RuleChoices
  /\ lost \in BOOLEAN
  /\ calls = 0 /\ written = {} /\ hurt = FALSE

Write(p) ==
  /\ calls < MaxCalls /\ calls' = calls + 1
  /\ payloads' = <<p>>
  /\ UNCHANGED <<asked, lost>>

\* What an Adapter writes while it reads the call.
Normalizing == written = {} /\ UNCHANGED <<written, hurt>>

SetOne ==
  \E f \in DOMAIN Values : \E v \in Values[f] : Normalizing /\ Write(SetField(payload, f, v))
Rename ==
  \E from, to \in Values["path"] : Normalizing /\ Write(SetRename(payload, from, to))
Models ==
  \E m, n \in Values["model"] : Normalizing /\ Write(SetModels(payload, <<m, n>>))
PathSpellings ==
  \E p, q \in Values["path"] : Normalizing /\ Write(SetPathSpellings(payload, <<p, q>>))

\* WithFields, once, over what was read: every name is cleared before any is written.
\* Two fields here, each with one value that is not empty.
WithFields ==
  \E f, g \in DOMAIN Values : \E v \in Values[f] \ {None}, w \in Values[g] \ {None} :
    /\ written = {} /\ (f = g => v = w)
    /\ Write(SetField(SetField(Unset(Unset(payload, f), g), f, v), g, w))
    /\ written' = {f, g}
    /\ hurt' = ("unreadable" \in {f, g})

Next == SetOne \/ Rename \/ Models \/ PathSpellings \/ WithFields

Spec == Init /\ [][Next]_vars

-----------------------------------------------------------------------------
\* The engine.

\* Mutant: a field that is not there meets a not_ term.
Meets_Absent(t, cands, i) ==
  IF i = 0 THEN t.neg
  ELSE LET c == cands[i] IN
       ~(t.neg /\ c.whole) /\ (t.neg # \E j \in DOMAIN c.spellings : c.spellings[j] \in t.hits)

\* meets: the whole command line is nothing a not_ term reads, and a field that is not
\* there, 0, meets no term.
Meets(t, cands, i) ==
  /\ i # 0
  /\ LET c == cands[i] IN
     ~(t.neg /\ c.whole) /\ (t.neg # \E j \in DOMAIN c.spellings : c.spellings[j] \in t.hits)

\* Chosen holds, for each field of the rule in turn, the index of a Candidate or 0.
Slot(r, f) == CHOOSE i \in DOMAIN r.fields : r.fields[i] = f
Satisfied(r, p, chosen) ==
  \A k \in DOMAIN r.conditions : \E t \in r.conditions[k] :
    Meets(t, p.fields[t.field], chosen[Slot(r, t.field)])

\* Mutant: the first Candidate of a field is the only one tried.
Choose_First(r, p) ==
  LET choose[chosen \in {c \in Seq(Nat) : Len(c) <= Len(r.fields)}] ==
        IF Len(chosen) = Len(r.fields) THEN Satisfied(r, p, chosen)
        ELSE LET cands == p.fields[r.fields[Len(chosen) + 1]] IN
             choose[Append(chosen, IF cands = <<>> THEN 0 ELSE 1)] IN
  choose[<<>>]

\* choose fills the slots in turn and backs out of a Candidate that does not do.
Choose(r, p) ==
  LET choose[chosen \in {c \in Seq(Nat) : Len(c) <= Len(r.fields)}] ==
        IF Len(chosen) = Len(r.fields) THEN Satisfied(r, p, chosen)
        ELSE LET cands == p.fields[r.fields[Len(chosen) + 1]] IN
             IF cands = <<>> THEN choose[Append(chosen, 0)]
             ELSE \E i \in DOMAIN cands : choose[Append(chosen, i)] IN
  choose[<<>>]

Matches(r, p) == r.kind \in {"", p.kind} /\ Choose(r, p)

\* matchAll: the payloads the rule matched.
Payloads == Yield(payloads, lost)
Indices == {i \in DOMAIN Payloads : Matches(rule, Payloads[i])}

-----------------------------------------------------------------------------
\* ADR 0024, said at once: a rule matches when some choice of one Candidate per field
\* it names, the absent ones left out, meets a term of every condition.
MatchIsAChoice ==
  \A i \in DOMAIN Payloads :
    LET p == Payloads[i]
        carried == {f \in Named(rule) : Has(p, f)} IN
    Matches(rule, p) <=>
      /\ rule.kind \in {"", p.kind}
      /\ \E pick \in [carried -> UNION {DOMAIN p.fields[f] : f \in carried}] :
           /\ \A f \in carried : pick[f] <= Len(p.fields[f])
           /\ \A k \in DOMAIN rule.conditions : \E t \in rule.conditions[k] :
                /\ t.field \in carried
                /\ LET c == p.fields[t.field][pick[t.field]] IN
                   IF t.neg THEN ~c.whole /\ \A j \in DOMAIN c.spellings : c.spellings[j] \notin t.hits
                   ELSE \E j \in DOMAIN c.spellings : c.spellings[j] \in t.hits

Declared(what) == Holds(payload.fields["unreadable"], Spelled(what))

\* Every url is accounted for: its domain is a Candidate or the domain is unreadable,
\* and no domain is left from a url that is gone, though a user who writes unreadable
\* has the last word on it.
DomainsAccounted ==
  LET urls == {payload.fields["url"][i].spellings[1] : i \in DOMAIN payload.fields["url"]} IN
  /\ {payload.fields["domain"][i].spellings[1] : i \in DOMAIN payload.fields["domain"]}
       = {DomainOf[u] : u \in urls} \ {None}
  /\ ~hurt /\ (\E u \in urls : DomainOf[u] = None) => Declared("domain")

\* A field that was written over leaves nothing stale behind it: what it, or what is
\* derived from it, holds in unreadable is about the value it has now.
NothingStale ==
  ~hurt => \A f \in written :
    /\ f = "command" /\ Declared(f) => ~ReadLine[payload.fields[f][1].spellings[1]].parsed
    /\ f = "url" /\ Declared("domain") =>
         \E i \in DOMAIN payload.fields[f] : DomainOf[payload.fields[f][i].spellings[1]] = None
    /\ f \notin {"command", "url"} => ~Declared(f)

\* Saying more never hides a call: what one more url, grant or unreadable entry adds to
\* a payload cannot take a match away, whatever the rule's terms and their polarity.
MoreNeverHides ==
  [][(written' = {} /\ \E f \in {"url", "network_grant", "unreadable"} : \E v \in Values[f] :
        payloads' = <<SetField(payload, f, v)>>)
     => (Matches(rule, payload) => Matches(rule, payload'))]_vars
=============================================================================
