--------------------------- MODULE MatchingProofs ---------------------------
(***************************************************************************)
(* Theorems about payloads and the rules asked of them, for any values,    *)
(* any rules, whatever paths, grants, urls and command lines are read as,  *)
(* and any number of writes.                                               *)
(*                                                                         *)
(* choose is a recursion, and so are what is kept of a list and what lists *)
(* are joined to: of each a solution is exhibited, or built up step by     *)
(* step, before anything can be said of it.                                *)
(***************************************************************************)
EXTENDS Matching, SequenceTheorems, NaturalsInduction, WellFoundedInduction, TLAPS

-----------------------------------------------------------------------------
\* Induction over the naturals, for a set of them.
LEMMA EveryNatural ==
  ASSUME NEW T, 0 \in T, \A n \in Nat : n \in T => n + 1 \in T
  PROVE  \A n \in Nat : n \in T
<1> DEFINE S == {n \in Nat : n \notin T}
<1> SUFFICES ASSUME S # {} PROVE FALSE OBVIOUS
<1>1. S \in SUBSET Nat OBVIOUS
<1> HIDE DEF S
<1>2. IsWellFoundedOn(OpToRel(<, Nat), Nat) BY NatLessThanWellFounded
<1>3. \E x \in S : \A y \in S : <<y, x>> \notin OpToRel(<, Nat) BY <1>1, <1>2, WFMin
<1>4. PICK x \in S : \A y \in S : ~(y < x) BY <1>1, <1>3 DEF OpToRel
<1>5. x \in Nat /\ x # 0 /\ x \notin T BY DEF S
<1>6. x - 1 \in Nat /\ x - 1 < x BY <1>5
<1>7. x - 1 \in T BY <1>4, <1>6 DEF S
<1>8. (x - 1) + 1 = x BY <1>5
<1> QED BY <1>5, <1>6, <1>7, <1>8

\* A sequence, with what is appended to it and joined to it.
LEMMA SequenceFacts ==
  ASSUME NEW s, IsSequence(s)
  PROVE  /\ Len(s) \in Nat /\ DOMAIN s = 1..Len(s) /\ s \in Seq(Range(s))
         /\ \A i \in DOMAIN s : s[i] \in Range(s)
BY DEF IsSequence, Range

LEMMA IsSequenceOf ==
  ASSUME NEW S, NEW s \in Seq(S)
  PROVE  IsSequence(s) /\ Range(s) \subseteq S
<1>1. s \in [1..Len(s) -> S] /\ Len(s) \in Nat OBVIOUS
<1>2. s \in [1..Len(s) -> Range(s)] BY <1>1 DEF Range
<1> QED BY <1>1, <1>2 DEF IsSequence, Range

LEMMA AppendFacts ==
  ASSUME NEW s, NEW e, IsSequence(s)
  PROVE  LET t == Append(s, e) IN
         /\ IsSequence(t) /\ Len(t) = Len(s) + 1 /\ Range(t) = Range(s) \cup {e}
         /\ t[Len(s) + 1] = e /\ \A i \in DOMAIN s : i \in DOMAIN t /\ t[i] = s[i]
<1> DEFINE S == Range(s) \cup {e}
           t == Append(s, e)
<1>1. s \in Seq(S) /\ e \in S /\ Len(s) \in Nat /\ DOMAIN s = 1..Len(s)
  BY SequenceFacts DEF IsSequence
<1>2. /\ t \in Seq(S) /\ Len(t) = Len(s) + 1 /\ t[Len(s) + 1] = e
      /\ \A i \in 1..Len(s) : t[i] = s[i]
  BY <1>1
<1>3. DOMAIN t = 1..Len(s) + 1 BY <1>1, <1>2
<1>4. Range(t) = S
  <2>1. \A i \in DOMAIN t : i \in DOMAIN s \/ i = Len(s) + 1 BY <1>1, <1>3
  <2>2. Len(s) + 1 \in DOMAIN t /\ \A i \in DOMAIN s : i \in DOMAIN t BY <1>1, <1>3
  <2> QED BY <1>1, <1>2, <2>1, <2>2 DEF Range
<1>5. IsSequence(t) BY <1>2, IsSequenceOf
<1>6. \A i \in DOMAIN s : i \in DOMAIN t BY <1>1, <1>3
<1> QED BY <1>1, <1>2, <1>4, <1>5, <1>6

LEMMA JoinFacts ==
  ASSUME NEW s, NEW t, IsSequence(s), IsSequence(t)
  PROVE  IsSequence(s \o t) /\ Range(s \o t) = Range(s) \cup Range(t)
<1> DEFINE S == Range(s) \cup Range(t)
<1>1. s \in Seq(S) /\ t \in Seq(S) /\ DOMAIN s = 1..Len(s) /\ DOMAIN t = 1..Len(t)
      /\ Len(s) \in Nat /\ Len(t) \in Nat
  BY SequenceFacts DEF IsSequence
<1>2. /\ s \o t \in Seq(S) /\ DOMAIN (s \o t) = 1..Len(s) + Len(t)
      /\ \A i \in 1..Len(s) + Len(t) :
           (s \o t)[i] = IF i <= Len(s) THEN s[i] ELSE t[i - Len(s)]
  BY <1>1
<1>3. Range(s \o t) \subseteq S BY <1>2, IsSequenceOf
<1>4. Range(s) \subseteq Range(s \o t) BY <1>1, <1>2 DEF Range
<1>5. Range(t) \subseteq Range(s \o t)
  <2>1. \A i \in DOMAIN t : Len(s) + i \in 1..Len(s) + Len(t) /\ (s \o t)[Len(s) + i] = t[i]
    BY <1>1, <1>2
  <2> QED BY <1>2, <2>1 DEF Range
<1> QED BY <1>2, <1>3, <1>4, <1>5, IsSequenceOf

-----------------------------------------------------------------------------
\* The lists kept has as it goes through s: one for every place, each with the elements
\* of S among those before it.
KeptBody(s, S, f) ==
  [n \in 0..Len(s) |->
     IF n = 0 THEN <<>> ELSE IF s[n] \in S THEN Append(f[n - 1], s[n]) ELSE f[n - 1]]

LEMMA KeptAt ==
  ASSUME NEW s, NEW S, NEW f, Len(s) \in Nat
  PROVE  /\ KeptBody(s, S, f)[0] = <<>>
         /\ \A n \in 1..Len(s) :
              KeptBody(s, S, f)[n] = IF s[n] \in S THEN Append(f[n - 1], s[n]) ELSE f[n - 1]
<1>1. 0 \in 0..Len(s) /\ \A n \in 1..Len(s) : n \in 0..Len(s) /\ n # 0 OBVIOUS
<1> QED BY <1>1 DEF KeptBody

LEMMA KeptSolved ==
  ASSUME NEW s, NEW S, IsSequence(s)
  PROVE  \E f : f = KeptBody(s, S, f)
<1> DEFINE L == Seq(Range(s))
           After(l, n) == IF s[n] \in S THEN Append(l, s[n]) ELSE l
           Upto(m) == \E f \in [0..m -> L] :
                        f[0] = <<>> /\ \A n \in 1..m : f[n] = After(f[n - 1], n)
           T == {m \in Nat : m <= Len(s) => Upto(m)}
<1>1. Len(s) \in Nat /\ \A n \in 1..Len(s) : s[n] \in Range(s) BY SequenceFacts
<1>2. Upto(0)
  <2> DEFINE f == [n \in 0..0 |-> <<>>]
  <2>1. f \in [0..0 -> L] /\ f[0] = <<>> OBVIOUS
  <2>2. \A n \in 1..0 : f[n] = After(f[n - 1], n) OBVIOUS
  <2> HIDE DEF f
  <2> QED BY <2>1, <2>2
<1>3. ASSUME NEW m \in Nat, m + 1 <= Len(s), Upto(m) PROVE Upto(m + 1)
  <2>1. PICK f \in [0..m -> L] : f[0] = <<>> /\ \A n \in 1..m : f[n] = After(f[n - 1], n)
    BY <1>3
  <2> DEFINE g == [n \in 0..m + 1 |-> IF n = m + 1 THEN After(f[m], m + 1) ELSE f[n]]
  <2>2. After(f[m], m + 1) \in L BY <1>1, <1>3
  <2>3. g \in [0..m + 1 -> L] BY <2>2
  <2>4. g[0] = <<>> BY <2>1
  <2>5. \A n \in 1..m + 1 : g[n] = After(g[n - 1], n)
    <3> TAKE n \in 1..m + 1
    <3>1. CASE n = m + 1
      <4>1. g[n] = After(f[m], n) BY <3>1
      <4>2. g[n - 1] = f[m] BY <3>1
      <4> QED BY <4>1, <4>2
    <3>2. CASE n # m + 1
      <4>1. n \in 1..m /\ n - 1 \in 0..m BY <3>2
      <4>2. g[n] = f[n] /\ g[n - 1] = f[n - 1] BY <4>1
      <4> QED BY <2>1, <4>1, <4>2
    <3> QED BY <3>1, <3>2
  <2> HIDE DEF g
  <2> QED BY <2>3, <2>4, <2>5
<1> HIDE DEF Upto
<1>4. \A m \in Nat : m \in T
  <2>1. 0 \in T BY <1>2
  <2>2. \A m \in Nat : m \in T => m + 1 \in T BY <1>1, <1>3
  <2> HIDE DEF T
  <2> QED BY <2>1, <2>2, EveryNatural
<1>5. Upto(Len(s)) BY <1>1, <1>4
<1>6. PICK f \in [0..Len(s) -> L] : f[0] = <<>> /\ \A n \in 1..Len(s) : f[n] = After(f[n - 1], n)
  BY <1>5 DEF Upto
<1>7. f = KeptBody(s, S, f)
  <2>1. f[0] = KeptBody(s, S, f)[0] BY <1>1, <1>6, KeptAt
  <2>2. \A n \in 1..Len(s) : f[n] = KeptBody(s, S, f)[n] BY <1>1, <1>6, KeptAt
  <2>3. \A n \in 0..Len(s) : n = 0 \/ n \in 1..Len(s) BY <1>1
  <2>4. \A n \in 0..Len(s) : f[n] = KeptBody(s, S, f)[n] BY <2>1, <2>2, <2>3
  <2> QED BY <1>6, <2>4 DEF KeptBody
<1> QED BY <1>7

\* Kept: a sequence of those elements of s that are in S.
LEMMA KeptFacts ==
  ASSUME NEW s, NEW S, IsSequence(s)
  PROVE  IsSequence(Kept(s, S)) /\ Range(Kept(s, S)) = Range(s) \cap S
<1> DEFINE kept == CHOOSE f : f = KeptBody(s, S, f)
           Those(n) == {s[i] : i \in 1..n} \cap S
           T == {n \in Nat : n <= Len(s) => IsSequence(kept[n]) /\ Range(kept[n]) = Those(n)}
<1>1. Len(s) \in Nat /\ DOMAIN s = 1..Len(s) BY SequenceFacts
<1>2. kept = KeptBody(s, S, kept) BY KeptSolved
<1>3. Kept(s, S) = kept[Len(s)] BY DEF Kept, KeptBody
<1> HIDE DEF kept
<1>4. /\ kept[0] = <<>>
      /\ \A n \in 1..Len(s) : kept[n] = IF s[n] \in S THEN Append(kept[n - 1], s[n]) ELSE kept[n - 1]
  BY <1>1, <1>2, KeptAt
<1>5. 0 \in T
  <2>1. IsSequence(<<>>) /\ Range(<<>>) = {} BY DEF IsSequence, Range
  <2> QED BY <1>4, <2>1
<1>6. ASSUME NEW n \in Nat, n \in T PROVE n + 1 \in T
  <2> SUFFICES ASSUME n + 1 <= Len(s)
               PROVE  IsSequence(kept[n + 1]) /\ Range(kept[n + 1]) = Those(n + 1)
    OBVIOUS
  <2>1. IsSequence(kept[n]) /\ Range(kept[n]) = Those(n) BY <1>1, <1>6
  <2>2. kept[n + 1] = IF s[n + 1] \in S THEN Append(kept[n], s[n + 1]) ELSE kept[n]
    BY <1>1, <1>4
  <2>3. Those(n + 1) = IF s[n + 1] \in S THEN Those(n) \cup {s[n + 1]} ELSE Those(n)
    <3>1. 1..n + 1 = 1..n \cup {n + 1} OBVIOUS
    <3>2. {s[i] : i \in 1..n + 1} = {s[i] : i \in 1..n} \cup {s[n + 1]} BY <3>1
    <3> QED BY <3>2
  <2> QED BY <2>1, <2>2, <2>3, AppendFacts
<1>7. \A n \in Nat : n \in T
  <2> HIDE DEF T
  <2> QED BY <1>5, <1>6, EveryNatural
<1>8. Those(Len(s)) = Range(s) \cap S BY <1>1 DEF Range
<1>9. IsSequence(kept[Len(s)]) /\ Range(kept[Len(s)]) = Those(Len(s)) BY <1>1, <1>7
<1> QED BY <1>3, <1>8, <1>9

-----------------------------------------------------------------------------
\* Payloads: a list of Candidates for every field.
IsPayload(p) ==
  /\ p = [kind |-> p.kind, fields |-> p.fields, files |-> p.files, continued |-> p.continued]
  /\ p.fields = [f \in Fields |-> p.fields[f]]
  /\ \A f \in Fields : IsSequence(p.fields[f])
  /\ IsSequence(p.files)

\* What a write of some fields leaves as it was.
Leaves(p, q, changed) ==
  q.kind = p.kind /\ \A f \in Fields \ changed : q.fields[f] = p.fields[f]

LEMMA SpelledFacts ==
  ASSUME NEW v
  PROVE  /\ Spelled(v).spellings[1] = v /\ \A w : Spelled(v) = Spelled(w) => v = w
         /\ IsSequence(<<Spelled(v)>>) /\ Range(<<Spelled(v)>>) = {Spelled(v)}
<1>1. Spelled(v).spellings[1] = v BY DEF Spelled
<1>2. \A w : Spelled(w).spellings[1] = w BY DEF Spelled
<1> DEFINE c == Spelled(v)
<1>3. <<c>> \in Seq({c}) /\ DOMAIN <<c>> = 1..1 /\ <<c>>[1] = c OBVIOUS
<1>4. Range(<<c>>) = {c} BY <1>3 DEF Range
<1> QED BY <1>1, <1>2, <1>3, <1>4 DEF IsSequence

LEMMA EmptySequence == IsSequence(<<>>) /\ Range(<<>>) = {}
BY DEF IsSequence, Range

LEMMA HoldsIs ==
  ASSUME NEW s, NEW x PROVE Holds(s, x) <=> x \in Range(s)
BY DEF Holds, Range

LEMMA WithFacts ==
  ASSUME NEW p, IsPayload(p), NEW f \in Fields, NEW cands, IsSequence(cands),
         NEW q, q = With(p, f, cands)
  PROVE  IsPayload(q) /\ Leaves(p, q, {f}) /\ q.fields[f] = cands /\ q.files = p.files
<1> DEFINE fs == [p.fields EXCEPT ![f] = cands]
<1>1. q = [kind |-> p.kind, fields |-> fs, files |-> p.files, continued |-> p.continued] BY DEF With, IsPayload
<1>2. fs[f] = cands /\ \A g \in Fields \ {f} : fs[g] = p.fields[g] BY DEF IsPayload
<1>3. fs = [g \in Fields |-> fs[g]] BY DEF IsPayload
<1> HIDE DEF fs
<1>4. q.kind = p.kind /\ q.fields = fs /\ q.files = p.files BY <1>1
<1>5. \A g \in Fields : IsSequence(fs[g]) BY <1>2 DEF IsPayload
<1> QED BY <1>1, <1>2, <1>3, <1>4, <1>5 DEF IsPayload, Leaves

\* t holds what s does, each where it was, and x.
Grown(s, t, x) ==
  /\ IsSequence(t) /\ Range(t) = Range(s) \cup {x}
  /\ \A i \in DOMAIN s : i \in DOMAIN t /\ t[i] = s[i]

LEMMA UnreadableFacts ==
  ASSUME NEW p, IsPayload(p), NEW what, NEW q, q = Unreadable(p, what)
  PROVE  /\ IsPayload(q) /\ Leaves(p, q, {"unreadable"}) /\ q.files = p.files
         /\ Grown(p.fields["unreadable"], q.fields["unreadable"], Spelled(what))
<1> DEFINE un == p.fields["unreadable"]
           more == Append(un, Spelled(what))
<1>1. "unreadable" \in Fields /\ IsSequence(un) BY DEF Fields, IsPayload
<1>2. CASE Spelled(what) \in Range(un)
  <2>1. q = p BY <1>2, HoldsIs DEF Unreadable
  <2>2. Grown(un, un, Spelled(what)) BY <1>1, <1>2 DEF Grown
  <2> QED BY <2>1, <2>2 DEF Leaves
<1>3. CASE Spelled(what) \notin Range(un)
  <2>1. q = With(p, "unreadable", more) BY <1>3, HoldsIs DEF Unreadable
  <2>2. Grown(un, more, Spelled(what)) BY <1>1, AppendFacts DEF Grown
  <2> HIDE DEF more
  <2>3. IsSequence(more) BY <2>2 DEF Grown
  <2>4. /\ IsPayload(q) /\ Leaves(p, q, {"unreadable"}) /\ q.fields["unreadable"] = more
        /\ q.files = p.files
    BY <1>1, <2>1, <2>3, WithFacts
  <2> QED BY <2>2, <2>4
<1> QED BY <1>2, <1>3

\* What is declared unreadable, and was and still is.
Told(p, what) == Spelled(what) \in Range(p.fields["unreadable"])
StillTold(p, q, what) == Told(p, what) => Told(q, what)

\* The url fields of a payload: a url whose domain cannot be vouched for is declared.
Heads(s) == {c.spellings[1] : c \in Range(s)}
Accounted(p) == Heads(p.fields["domain"]) = {DomainOf[u] : u \in Heads(p.fields["url"])} \ {None}
Flagged(p) ==
  (\E u \in Heads(p.fields["url"]) : DomainOf[u] = None) => Told(p, "domain")

LEMMA HeadsOfMore ==
  ASSUME NEW s, NEW t, NEW v, Grown(s, t, Spelled(v))
  PROVE  Heads(t) = Heads(s) \cup {v}
<1>1. Range(t) = Range(s) \cup {Spelled(v)} BY DEF Grown
<1>2. Spelled(v).spellings[1] = v BY SpelledFacts
<1> QED BY <1>1, <1>2 DEF Heads

\* What is written anywhere but in these two fields and unreadable is no matter of theirs.
LEMMA UrlsKept ==
  ASSUME NEW p, NEW q, NEW changed, Leaves(p, q, changed), {"url", "domain"} \cap changed = {},
         StillTold(p, q, "domain")
  PROVE  (Accounted(p) => Accounted(q)) /\ (Flagged(p) => Flagged(q))
<1>1. q.fields["url"] = p.fields["url"] /\ q.fields["domain"] = p.fields["domain"]
  BY DEF Leaves, Fields
<1> QED BY <1>1 DEF Accounted, Flagged, Told, StillTold

\* One more url, its domain with it.
LEMMA SetURLFacts ==
  ASSUME NEW p, IsPayload(p), NEW v, NEW q, q = SetURL(p, v)
  PROVE  /\ IsPayload(q) /\ Leaves(p, q, {"url", "domain", "unreadable"}) /\ q.files = p.files
         /\ Grown(p.fields["url"], q.fields["url"], Spelled(v))
         /\ DomainOf[v] = None =>
              /\ q.fields["domain"] = p.fields["domain"]
              /\ Grown(p.fields["unreadable"], q.fields["unreadable"], Spelled("domain"))
         /\ DomainOf[v] # None =>
              /\ Grown(p.fields["domain"], q.fields["domain"], Spelled(DomainOf[v]))
              /\ q.fields["unreadable"] = p.fields["unreadable"]
<1>1. /\ "url" \in Fields /\ "domain" \in Fields /\ "unreadable" \in Fields
      /\ \A f \in Fields : IsSequence(p.fields[f])
  BY DEF Fields, IsPayload
<1> DEFINE urls == Append(p.fields["url"], Spelled(v))
           more == Append(p.fields["domain"], Spelled(DomainOf[v]))
<1>2. Grown(p.fields["url"], urls, Spelled(v)) BY <1>1, AppendFacts DEF Grown
<1>3. Grown(p.fields["domain"], more, Spelled(DomainOf[v])) BY <1>1, AppendFacts DEF Grown
<1>4. PICK r : r = With(p, "url", urls) OBVIOUS
<1>5. q = IF DomainOf[v] = None THEN Unreadable(r, "domain")
          ELSE With(r, "domain", Append(r.fields["domain"], Spelled(DomainOf[v])))
  BY <1>4 DEF SetURL
<1> HIDE DEF urls
<1>6. /\ IsPayload(r) /\ Leaves(p, r, {"url"}) /\ r.files = p.files /\ r.fields["url"] = urls
  BY <1>1, <1>2, <1>4, WithFacts DEF Grown
<1>7. /\ r.fields["domain"] = p.fields["domain"] /\ r.fields["unreadable"] = p.fields["unreadable"]
      /\ r.kind = p.kind /\ \A f \in Fields \ {"url"} : r.fields[f] = p.fields[f]
  BY <1>1, <1>6 DEF Leaves
<1>8. CASE DomainOf[v] = None
  <2>1. q = Unreadable(r, "domain") BY <1>5, <1>8
  <2>2. IsPayload(q) /\ Leaves(r, q, {"unreadable"}) /\ q.files = r.files
        /\ Grown(r.fields["unreadable"], q.fields["unreadable"], Spelled("domain"))
    BY <1>6, <2>1, UnreadableFacts
  <2>3. q.fields["url"] = r.fields["url"] /\ q.fields["domain"] = r.fields["domain"]
    BY <1>1, <2>2 DEF Leaves
  <2>4. Leaves(p, q, {"url", "domain", "unreadable"}) BY <1>7, <2>2 DEF Leaves
  <2> QED BY <1>2, <1>6, <1>7, <1>8, <2>2, <2>3, <2>4
<1>9. CASE DomainOf[v] # None
  <2>1. q = With(r, "domain", more) BY <1>5, <1>7, <1>9
  <2> HIDE DEF more
  <2>2. IsPayload(q) /\ Leaves(r, q, {"domain"}) /\ q.files = r.files /\ q.fields["domain"] = more
    BY <1>1, <1>3, <1>6, <2>1, WithFacts DEF Grown
  <2>3. q.fields["url"] = r.fields["url"] /\ q.fields["unreadable"] = r.fields["unreadable"]
    BY <1>1, <2>2 DEF Leaves
  <2>4. Leaves(p, q, {"url", "domain", "unreadable"}) BY <1>7, <2>2 DEF Leaves
  <2> QED BY <1>2, <1>3, <1>6, <1>7, <1>9, <2>2, <2>3, <2>4
<1> QED BY <1>8, <1>9

LEMMA SetURLAccounts ==
  ASSUME NEW p, IsPayload(p), NEW v, NEW q, q = SetURL(p, v), Accounted(p)
  PROVE  Accounted(q) /\ (Flagged(p) => Flagged(q))
<1>1. Heads(q.fields["url"]) = Heads(p.fields["url"]) \cup {v} BY SetURLFacts, HeadsOfMore
<1>2. CASE DomainOf[v] = None
  <2>1. q.fields["domain"] = p.fields["domain"] BY <1>2, SetURLFacts
  <2>2. Grown(p.fields["unreadable"], q.fields["unreadable"], Spelled("domain"))
    BY <1>2, SetURLFacts
  <2>3. Told(q, "domain") BY <2>2 DEF Grown, Told
  <2> QED BY <1>1, <1>2, <2>1, <2>3 DEF Accounted, Flagged
<1>3. CASE DomainOf[v] # None
  <2>1. Heads(q.fields["domain"]) = Heads(p.fields["domain"]) \cup {DomainOf[v]}
    BY <1>3, SetURLFacts, HeadsOfMore
  <2>2. q.fields["unreadable"] = p.fields["unreadable"] BY <1>3, SetURLFacts
  <2> QED BY <1>1, <1>3, <2>1, <2>2 DEF Accounted, Flagged, Told
<1> QED BY <1>2, <1>3

-----------------------------------------------------------------------------
\* A sequence of one.
LEMMA OneFacts ==
  ASSUME NEW x PROVE IsSequence(<<x>>) /\ Range(<<x>>) = {x}
<1>1. <<x>> \in Seq({x}) /\ DOMAIN <<x>> = 1..1 /\ <<x>>[1] = x OBVIOUS
<1> QED BY <1>1 DEF IsSequence, Range

\* A sequence made of another, place by place.
LEMMA MappedFacts ==
  ASSUME NEW s, IsSequence(s), NEW t, t = [i \in DOMAIN s |-> t[i]]
  PROVE  IsSequence(t)
<1>1. Len(s) \in Nat /\ DOMAIN s = 1..Len(s) BY SequenceFacts
<1>2. t \in [1..Len(s) -> Range(t)] BY <1>1 DEF Range
<1> QED BY <1>1, <1>2 DEF IsSequence

\* A field a write replaces or adds to, whatever the value.
LEMMA SetPathFacts ==
  ASSUME NEW p, IsPayload(p), NEW v, NEW q, q = SetField(p, "path", v)
  PROVE  IsPayload(q) /\ Leaves(p, q, {"path"}) /\ q.files = p.files
<1>1. "path" \in Fields BY DEF Fields
<1>2. CASE v = None
  <2>1. q = p BY <1>2 DEF SetField
  <2> QED BY <2>1 DEF Leaves
<1>3. CASE v # None
  <2> DEFINE one == <<Spelled(Clean[v])>>
  <2>1. q = With(p, "path", one) BY <1>3 DEF SetField
  <2>2. IsSequence(one) BY OneFacts
  <2> HIDE DEF one
  <2> QED BY <1>1, <2>1, <2>2, WithFacts
<1> QED BY <1>2, <1>3

LEMMA SetToolFacts ==
  ASSUME NEW p, IsPayload(p), NEW v, NEW q, q = SetTool(p, v)
  PROVE  IsPayload(q) /\ Leaves(p, q, {"tool"}) /\ q.files = p.files
<1>1. "tool" \in Fields BY DEF Fields
<1> DEFINE names == IF Has(p, "tool") THEN p.fields["tool"][1].spellings ELSE <<>>
           one == <<[spellings |-> Append(names, v), whole |-> FALSE]>>
<1>2. q = IF Holds(names, v) THEN p ELSE With(p, "tool", one) BY DEF SetTool
<1>3. IsSequence(one) BY OneFacts
<1> HIDE DEF names, one
<1>4. CASE q = p BY <1>4 DEF Leaves
<1>5. CASE q = With(p, "tool", one) BY <1>1, <1>3, <1>5, WithFacts
<1> QED BY <1>2, <1>4, <1>5

\* A command's first Candidate is its line; it is unreadable where it could not be parsed.
LEMMA SetCommandFacts ==
  ASSUME NEW p, IsPayload(p), NEW v \in Values["command"], NEW q, q = SetCommand(p, v)
  PROVE  /\ IsPayload(q) /\ Leaves(p, q, {"command", "unreadable"})
         /\ q.fields["command"][1].spellings[1] = v
         /\ IF ReadLine[v].parsed THEN q.fields["unreadable"] = p.fields["unreadable"]
            ELSE Grown(p.fields["unreadable"], q.fields["unreadable"], Spelled("command"))
<1>1. /\ "command" \in Fields /\ "unreadable" \in Fields
  BY DEF Fields
<1> DEFINE of == ReadLine[v]
           read == IF of.read = <<>> THEN <<<<>>>> ELSE of.read
           each == [i \in DOMAIN read |-> [spellings |-> read[i], whole |-> FALSE]]
           whole == [spellings |-> <<v>>, whole |-> TRUE]
           cands == <<whole>> \o each
           w == With(p, "command", cands)
           r == [w EXCEPT !.files = of.files]
<1>2. of.parsed \in BOOLEAN /\ IsSequence(of.files) /\ IsSequence(of.read) BY ReadAssumption
<1>3. q = IF of.parsed THEN r ELSE Unreadable(r, "command") BY DEF SetCommand
<1>4. IsSequence(cands) /\ cands[1] = whole
  <2>1. IsSequence(read) BY <1>2, OneFacts
  <2> HIDE DEF read
  <2>2. IsSequence(each) BY <2>1, MappedFacts
  <2> HIDE DEF each, whole
  <2>3. IsSequence(<<whole>>) BY OneFacts
  <2>4. IsSequence(cands) BY <2>2, <2>3, JoinFacts
  <2>5. each \in Seq(Range(each)) BY <2>2 DEF IsSequence
  <2>6. cands[1] = whole BY <2>5
  <2> QED BY <2>4, <2>6
<1>5. whole.spellings[1] = v OBVIOUS
<1> HIDE DEF cands, whole, of
<1>6. IsPayload(w) /\ Leaves(p, w, {"command"}) /\ w.fields["command"] = cands
  <2> HIDE DEF w
  <2> QED BY <1>1, <1>4, WithFacts DEF w
<1> HIDE DEF w
<1>7. r.fields = w.fields /\ r.kind = w.kind /\ r.files = of.files
      /\ r = [kind |-> w.kind, fields |-> w.fields, files |-> of.files, continued |-> w.continued]
  BY <1>6 DEF IsPayload
<1> HIDE DEF r
<1>8. IsPayload(r) BY <1>2, <1>6, <1>7 DEF IsPayload
<1>9. Leaves(p, r, {"command"}) /\ r.fields["command"] = cands
      /\ r.fields["unreadable"] = p.fields["unreadable"]
  BY <1>1, <1>6, <1>7 DEF Leaves
<1>10. CASE of.parsed
  <2>1. q = r BY <1>3, <1>10
  <2> QED BY <1>4, <1>5, <1>8, <1>9, <1>10, <2>1 DEF Leaves, of
<1>11. CASE ~of.parsed
  <2>1. q = Unreadable(r, "command") BY <1>3, <1>11
  <2>2. IsPayload(q) /\ Leaves(r, q, {"unreadable"})
        /\ Grown(r.fields["unreadable"], q.fields["unreadable"], Spelled("command"))
    BY <1>8, <2>1, UnreadableFacts
  <2>3. q.fields["command"] = cands BY <1>1, <1>9, <2>2 DEF Leaves
  <2>4. Leaves(p, q, {"command", "unreadable"}) BY <1>9, <2>2 DEF Leaves
  <2> QED BY <1>4, <1>5, <1>9, <1>11, <2>2, <2>3, <2>4 DEF of
<1> QED BY <1>10, <1>11

\* What a write of v to f declares unreadable, and why.
Cause(f, v, what) ==
  \/ f = "unreadable" /\ what = v
  \/ f = "command" /\ what = "command" /\ ~ReadLine[v].parsed
  \/ f = "url" /\ what = "domain" /\ DomainOf[v] = None

\* The fields a write to f may change, and unreadable with them.
Derived(f) == (IF f = "url" THEN {"url", "domain"} ELSE {f}) \cup {"unreadable"}

\* A write: only f, what is derived from it and unreadable change, nothing is taken out
\* of unreadable, and what is put there has its cause in the value.
Writes(p, q, f, v) ==
  /\ IsPayload(q) /\ Leaves(p, q, Derived(f))
  /\ \A what : Told(p, what) => Told(q, what)
  /\ \A what : Told(q, what) => Told(p, what) \/ Cause(f, v, what)

\* A write of a field that is not unreadable and has no derived one.
LEMMA PlainWrite ==
  ASSUME NEW p, NEW q, IsPayload(q), NEW f \in Fields \ {"unreadable"}, NEW v, Leaves(p, q, {f})
  PROVE  Writes(p, q, f, v)
<1>1. q.fields["unreadable"] = p.fields["unreadable"] BY DEF Leaves, Fields
<1>2. Leaves(p, q, Derived(f)) BY DEF Leaves, Derived
<1> QED BY <1>1, <1>2 DEF Writes, Told

LEMMA GrownTold ==
  ASSUME NEW p, NEW q, NEW x,
         Grown(p.fields["unreadable"], q.fields["unreadable"], Spelled(x))
  PROVE  \A what : Told(q, what) <=> Told(p, what) \/ what = x
<1>1. \A what : Spelled(what) = Spelled(x) => what = x BY SpelledFacts
<1> QED BY <1>1 DEF Told, Grown

LEMMA SetFieldFacts ==
  ASSUME NEW p, IsPayload(p), NEW f \in Fields \ {"domain"}, NEW v,
         f = "command" => v \in Values["command"], NEW q, q = SetField(p, f, v)
  PROVE  Writes(p, q, f, v)
<1>1. IsSequence(p.fields[f]) BY DEF IsPayload
<1>2. CASE v = None
  <2>1. q = p BY <1>2 DEF SetField
  <2> QED BY <2>1 DEF Writes, Leaves
<1>3. CASE v # None /\ f = "tool"
  <2>1. q = SetTool(p, v) BY <1>3 DEF SetField
  <2> QED BY <1>3, <2>1, SetToolFacts, PlainWrite
<1>4. CASE v # None /\ f = "path"
  <2> QED BY <1>4, SetPathFacts, PlainWrite
<1>5. CASE v # None /\ f = "command"
  <2>1. q = SetCommand(p, v) BY <1>5 DEF SetField
  <2>2. Leaves(p, q, Derived(f)) BY <1>5, <2>1, SetCommandFacts DEF Derived
  <2>3. IsPayload(q) BY <1>5, <2>1, SetCommandFacts
  <2>4. CASE ReadLine[v].parsed
    <3>1. q.fields["unreadable"] = p.fields["unreadable"] BY <1>5, <2>1, <2>4, SetCommandFacts
    <3> QED BY <2>2, <2>3, <3>1 DEF Writes, Told
  <2>5. CASE ~ReadLine[v].parsed
    <3>1. Grown(p.fields["unreadable"], q.fields["unreadable"], Spelled("command"))
      BY <1>5, <2>1, <2>5, SetCommandFacts
    <3> QED BY <1>5, <2>2, <2>3, <2>5, <3>1, GrownTold DEF Writes, Cause
  <2> QED BY <2>4, <2>5
<1>6. CASE v # None /\ f = "url"
  <2>1. q = SetURL(p, v) BY <1>6 DEF SetField
  <2>2. IsPayload(q) /\ Leaves(p, q, Derived(f)) BY <1>6, <2>1, SetURLFacts DEF Derived
  <2>3. CASE DomainOf[v] # None
    <3>1. q.fields["unreadable"] = p.fields["unreadable"] BY <2>1, <2>3, SetURLFacts
    <3> QED BY <2>2, <3>1 DEF Writes, Told
  <2>4. CASE DomainOf[v] = None
    <3>1. Grown(p.fields["unreadable"], q.fields["unreadable"], Spelled("domain"))
      BY <2>1, <2>4, SetURLFacts
    <3> QED BY <1>6, <2>2, <2>4, <3>1, GrownTold DEF Writes, Cause
  <2> QED BY <2>3, <2>4
<1>7. CASE v # None /\ f = "network_grant"
  <2> DEFINE more == Append(p.fields[f], Spelled(Host[v]))
  <2>1. q = IF Host[v] = None THEN p ELSE With(p, f, more) BY <1>7 DEF SetField
  <2>2. IsSequence(more) BY <1>1, AppendFacts
  <2> HIDE DEF more
  <2>3. CASE q = p BY <2>3 DEF Writes, Leaves
  <2>4. CASE q = With(p, f, more)
    <3>1. IsPayload(q) /\ Leaves(p, q, {f}) BY <2>2, <2>4, WithFacts
    <3> QED BY <1>7, <3>1, PlainWrite
  <2> QED BY <2>1, <2>3, <2>4
<1>8. CASE v # None /\ f = "unreadable"
  <2>1. q = Unreadable(p, v) BY <1>8 DEF SetField
  <2>2. IsPayload(q) /\ Leaves(p, q, Derived(f)) BY <1>8, <2>1, UnreadableFacts DEF Derived
  <2>3. Grown(p.fields["unreadable"], q.fields["unreadable"], Spelled(v))
    BY <2>1, UnreadableFacts
  <2> QED BY <1>8, <2>2, <2>3, GrownTold DEF Writes, Cause
<1>9. CASE v # None /\ f \notin {"tool", "path", "command", "url", "network_grant", "unreadable"}
  <2> DEFINE one == <<Spelled(v)>>
  <2>1. q = With(p, f, one) BY <1>9 DEF SetField
  <2>2. IsSequence(one) BY OneFacts
  <2> HIDE DEF one
  <2>3. IsPayload(q) /\ Leaves(p, q, {f}) BY <2>1, <2>2, WithFacts
  <2> QED BY <1>9, <2>3, PlainWrite
<1> QED BY <1>2, <1>3, <1>4, <1>5, <1>6, <1>7, <1>8, <1>9

\* Unset: the field is empty, and what is derived from it, and no entry about them is
\* left in unreadable.
Gone(f) == IF f = "url" THEN {"url", "domain"} ELSE {f}

LEMMA UnsetFacts ==
  ASSUME NEW p, IsPayload(p), NEW f \in Fields, NEW q, q = Unset(p, f)
  PROVE  /\ IsPayload(q) /\ Leaves(p, q, Gone(f) \cup {"unreadable"})
         /\ f # "unreadable" => \A g \in Gone(f) \ {"unreadable"} : q.fields[g] = <<>>
         /\ \A what : Told(q, what) <=> f # "unreadable" /\ what \notin Gone(f) /\ Told(p, what)
<1>1. "url" \in Fields /\ "domain" \in Fields /\ "unreadable" \in Fields BY DEF Fields
<1>2. PICK r : r = IF f = "url" THEN With(With(p, f, <<>>), "domain", <<>>) ELSE With(p, f, <<>>)
  OBVIOUS
<1> DEFINE declared == r.fields["unreadable"]
           stays == {c \in Range(declared) : c.spellings[1] \notin Gone(f)}
           kept == Kept(declared, stays)
<1>3. q = With(r, "unreadable", kept) BY <1>2 DEF Unset, Gone
<1>4. IsPayload(r) /\ Leaves(p, r, Gone(f)) /\ \A g \in Gone(f) : r.fields[g] = <<>>
  <2>1. CASE f # "url"
    <3>1. r = With(p, f, <<>>) BY <1>2, <2>1
    <3> QED BY <2>1, <3>1, EmptySequence, WithFacts DEF Gone
  <2>2. CASE f = "url"
    <3>1. PICK u : u = With(p, "url", <<>>) OBVIOUS
    <3>2. IsPayload(u) /\ Leaves(p, u, {"url"}) /\ u.fields["url"] = <<>>
      BY <1>1, <3>1, EmptySequence, WithFacts
    <3>3. r = With(u, "domain", <<>>) BY <1>2, <2>2, <3>1
    <3>4. IsPayload(r) /\ Leaves(u, r, {"domain"}) /\ r.fields["domain"] = <<>>
      BY <1>1, <3>2, <3>3, EmptySequence, WithFacts
    <3> QED BY <1>1, <2>2, <3>2, <3>4 DEF Gone, Leaves
  <2> QED BY <2>1, <2>2
<1>5. IsSequence(declared) BY <1>1, <1>4 DEF IsPayload
<1>6. IsSequence(kept) /\ Range(kept) = stays
  <2>1. Range(kept) = Range(declared) \cap stays /\ IsSequence(kept) BY <1>5, KeptFacts
  <2> QED BY <2>1
<1> HIDE DEF kept
<1>7. IsPayload(q) /\ Leaves(r, q, {"unreadable"}) /\ q.fields["unreadable"] = kept
  BY <1>1, <1>3, <1>4, <1>6, WithFacts
<1>8. Leaves(p, q, Gone(f) \cup {"unreadable"}) BY <1>4, <1>7 DEF Leaves
<1>9. ASSUME f # "unreadable" PROVE \A g \in Gone(f) \ {"unreadable"} : q.fields[g] = <<>>
  BY <1>1, <1>4, <1>7, <1>9 DEF Leaves, Gone
<1>10. \A what : Told(q, what) <=> Told(r, what) /\ what \notin Gone(f)
  <2>1. \A what : Spelled(what).spellings[1] = what BY SpelledFacts
  <2> QED BY <1>6, <1>7, <2>1 DEF Told
<1>11. f # "unreadable" => r.fields["unreadable"] = p.fields["unreadable"]
  BY <1>1, <1>4 DEF Leaves, Gone
<1>12. f = "unreadable" => r.fields["unreadable"] = <<>> BY <1>4 DEF Gone
<1>13. \A what : Told(r, what) <=> f # "unreadable" /\ Told(p, what)
  BY <1>11, <1>12, EmptySequence DEF Told
<1> QED BY <1>7, <1>8, <1>9, <1>10, <1>13

\* What the other writes change: one field and what is declared of it, if anything.
Touches(p, q, f) ==
  /\ IsPayload(q) /\ Leaves(p, q, {f, "unreadable"})
  /\ \A what : Told(q, what) => Told(p, what)
  /\ \A what : what # f /\ Told(p, what) => Told(q, what)

LEMMA SetRenameFacts ==
  ASSUME NEW p, IsPayload(p), NEW from, NEW to, NEW q, q = SetRename(p, from, to)
  PROVE  Touches(p, q, "path")
<1>1. "path" \in Fields /\ "unreadable" \in Fields BY DEF Fields
<1>2. PICK u : u = SetField(p, "path", from) OBVIOUS
<1>3. PICK r : r = SetField(u, "path", to) OBVIOUS
<1>4. IsPayload(u) /\ Leaves(p, u, {"path"}) BY <1>2, SetPathFacts
<1>5. IsPayload(r) /\ Leaves(u, r, {"path"}) BY <1>3, <1>4, SetPathFacts
<1> DEFINE both == u.fields["path"] \o r.fields["path"]
<1>6. q = With(r, "path", both) \/ q = r BY <1>2, <1>3 DEF SetRename
<1>7. IsSequence(both) BY <1>1, <1>4, <1>5, JoinFacts DEF IsPayload
<1> HIDE DEF both
<1>8. IsPayload(q) /\ Leaves(r, q, {"path"})
  <2>1. CASE q = r BY <1>5, <2>1 DEF Leaves
  <2>2. CASE q = With(r, "path", both) BY <1>1, <1>5, <1>7, <2>2, WithFacts
  <2> QED BY <1>6, <2>1, <2>2
<1>9. Leaves(p, q, {"path"}) BY <1>4, <1>5, <1>8 DEF Leaves
<1>10. q.fields["unreadable"] = p.fields["unreadable"] BY <1>1, <1>9 DEF Leaves
<1>11. Leaves(p, q, {"path", "unreadable"}) BY <1>9 DEF Leaves
<1> QED BY <1>8, <1>10, <1>11 DEF Touches, Told

\* SetModels and SetPathSpellings clear the field and write it whole.
LEMMA UnsetThenWith ==
  ASSUME NEW p, IsPayload(p), NEW f \in Fields \ {"url", "unreadable"},
         NEW cands, IsSequence(cands), NEW q, q = With(Unset(p, f), f, cands)
  PROVE  Touches(p, q, f)
<1>1. PICK u : u = Unset(p, f) OBVIOUS
<1>2. IsPayload(u) /\ Leaves(p, u, {f, "unreadable"})
      /\ \A what : Told(u, what) <=> what # f /\ Told(p, what)
  <2>1. Gone(f) = {f} BY DEF Gone
  <2>2. Gone(f) \cup {"unreadable"} = {f, "unreadable"} BY <2>1
  <2> QED BY <1>1, <2>1, <2>2, UnsetFacts
<1>3. IsPayload(q) /\ Leaves(u, q, {f}) BY <1>1, <1>2, WithFacts
<1>4. q.fields["unreadable"] = u.fields["unreadable"] BY <1>3 DEF Leaves, Fields
<1>5. Leaves(p, q, {f, "unreadable"}) BY <1>2, <1>3 DEF Leaves
<1> QED BY <1>2, <1>3, <1>4, <1>5 DEF Touches, Told

LEMMA PairFacts ==
  ASSUME NEW x, NEW y PROVE IsSequence(<<x, y>>)
<1>1. <<x, y>> \in Seq({x, y}) OBVIOUS
<1> QED BY <1>1, IsSequenceOf

LEMMA SetModelsFacts ==
  ASSUME NEW p, IsPayload(p), NEW m, NEW n, NEW q, q = SetModels(p, <<m, n>>)
  PROVE  Touches(p, q, "model")
<1> DEFINE models == <<m, n>>
           some == Kept(models, Range(models) \ {None})
           cands == [i \in DOMAIN some |-> Spelled(some[i])]
<1>1. q = With(Unset(p, "model"), "model", cands) BY DEF SetModels
<1>2. IsSequence(models) BY PairFacts
<1> HIDE DEF models
<1>3. IsSequence(some) BY <1>2, KeptFacts
<1> HIDE DEF some
<1>4. IsSequence(cands) BY <1>3, MappedFacts
<1> HIDE DEF cands
<1>5. "model" \in Fields \ {"url", "unreadable"} BY DEF Fields
<1> QED BY <1>1, <1>4, <1>5, UnsetThenWith

LEMMA SetPathSpellingsFacts ==
  ASSUME NEW p, IsPayload(p), NEW m, NEW n, NEW q, q = SetPathSpellings(p, <<m, n>>)
  PROVE  Touches(p, q, "path")
<1> DEFINE paths == <<m, n>>
           some == Kept(paths, Range(paths) \ {None})
           cleaned == [i \in DOMAIN some |-> Clean[some[i]]]
           once == IF Len(cleaned) = 2 /\ cleaned[1] = cleaned[2] THEN <<cleaned[1]>> ELSE cleaned
           cands == IF once = <<>> THEN <<>> ELSE <<[spellings |-> once, whole |-> FALSE]>>
<1>1. q = With(Unset(p, "path"), "path", cands) BY DEF SetPathSpellings
<1> HIDE DEF once
<1>2. IsSequence(cands) BY OneFacts, EmptySequence
<1> HIDE DEF cands
<1>3. "path" \in Fields \ {"url", "unreadable"} BY DEF Fields
<1> QED BY <1>1, <1>2, <1>3, UnsetThenWith

-----------------------------------------------------------------------------
\* What each write does to the accounting of urls.
LEMMA TouchesAccounts ==
  ASSUME NEW p, NEW q, NEW f \in Fields \ {"url", "domain"}, Touches(p, q, f)
  PROVE  (Accounted(p) => Accounted(q)) /\ (Flagged(p) => Flagged(q))
<1>1. Leaves(p, q, {f, "unreadable"}) /\ StillTold(p, q, "domain") BY DEF Touches, StillTold
<1> QED BY <1>1, UrlsKept

LEMMA SetFieldAccounts ==
  ASSUME NEW p, IsPayload(p), NEW f \in Fields \ {"domain"}, NEW v,
         f = "command" => v \in Values["command"], NEW q, q = SetField(p, f, v)
  PROVE  (Accounted(p) => Accounted(q)) /\ (Accounted(p) /\ Flagged(p) => Flagged(q))
<1>1. CASE f # "url"
  <2>1. Writes(p, q, f, v) BY SetFieldFacts
  <2>2. Leaves(p, q, {f, "unreadable"}) BY <1>1, <2>1 DEF Writes, Derived, Leaves
  <2>3. StillTold(p, q, "domain") BY <2>1 DEF Writes, StillTold
  <2> QED BY <1>1, <2>2, <2>3, UrlsKept
<1>2. CASE f = "url"
  <2>1. CASE v = None
    <3>1. q = p BY <2>1 DEF SetField
    <3> QED BY <3>1
  <2>2. CASE v # None
    <3>1. q = SetURL(p, v) BY <1>2, <2>2 DEF SetField
    <3> QED BY <3>1, SetURLAccounts
  <2> QED BY <2>1, <2>2
<1> QED BY <1>1, <1>2

\* A field is cleared: with url goes its domain and every entry about it, with
\* unreadable what it said.
LEMMA UnsetAccounts ==
  ASSUME NEW p, IsPayload(p), NEW f \in Fields \ {"domain"}, NEW q, q = Unset(p, f)
  PROVE  (Accounted(p) => Accounted(q)) /\ (f # "unreadable" /\ Flagged(p) => Flagged(q))
<1>1. CASE f = "url"
  <2>1. q.fields["url"] = <<>> /\ q.fields["domain"] = <<>>
    <3>1. {"url", "domain"} = Gone(f) BY <1>1 DEF Gone
    <3>2. f # "unreadable" /\ {"url", "domain"} \subseteq Gone(f) \ {"unreadable"} BY <1>1, <3>1
    <3> QED BY <3>2, UnsetFacts
  <2>2. Heads(<<>>) = {} BY EmptySequence DEF Heads
  <2> QED BY <2>1, <2>2 DEF Accounted, Flagged
<1>2. CASE f # "url"
  <2>1. Gone(f) = {f} BY <1>2 DEF Gone
  <2>2. Leaves(p, q, {f, "unreadable"})
    <3>1. Gone(f) \cup {"unreadable"} = {f, "unreadable"} BY <2>1
    <3> QED BY <3>1, UnsetFacts
  <2>3. q.fields["url"] = p.fields["url"] /\ q.fields["domain"] = p.fields["domain"]
    BY <1>2, <2>2 DEF Leaves, Fields
  <2>4. f # "unreadable" => StillTold(p, q, "domain") BY <2>1, UnsetFacts DEF StillTold
  <2> QED BY <2>3, <2>4 DEF Accounted, Flagged, StillTold
<1> QED BY <1>1, <1>2

-----------------------------------------------------------------------------
\* The inductive invariant.  There is one payload and it has every field; its urls are
\* accounted for; and test --field, which writes last, leaves nothing stale.
Sound ==
  /\ payloads = <<payload>> /\ IsPayload(payload)
  /\ asked \in DOMAIN RuleChoices
  /\ lost \in BOOLEAN /\ hurt \in BOOLEAN
  /\ written \subseteq DOMAIN Values
  /\ written = {} => ~hurt

UrlsAccounted == Accounted(payload) /\ (~hurt => Flagged(payload))

IInv == Sound /\ UrlsAccounted /\ NothingStale

LEMMA PayloadIs == \A p : payloads = <<p>> => payload = p
BY DEF payload

LEMMA PayloadIsNext == \A p : payloads' = <<p>> => payload' = p
BY DEF payload

LEMMA EmptyIs ==
  ASSUME NEW k, NEW p, p = [Empty EXCEPT !.kind = k]
  PROVE  IsPayload(p) /\ \A f \in Fields : p.fields[f] = <<>>
<1>1. p = [kind |-> k, fields |-> [f \in Fields |-> <<>>], files |-> <<>>, continued |-> FALSE] BY DEF Empty
<1> DEFINE none == [f \in Fields |-> <<>>]
<1>2. none = [f \in Fields |-> none[f]] /\ \A f \in Fields : none[f] = <<>> OBVIOUS
<1> HIDE DEF none
<1>3. p.kind = k /\ p.fields = none /\ p.files = <<>> BY <1>1 DEF none
<1>4. p = [kind |-> p.kind, fields |-> p.fields, files |-> p.files, continued |-> p.continued] BY <1>1
<1> QED BY <1>2, <1>3, <1>4, EmptySequence DEF IsPayload

LEMMA InitOk == Init => IInv
<1> SUFFICES ASSUME Init PROVE IInv OBVIOUS
<1>1. PICK k : payloads = <<[Empty EXCEPT !.kind = k]>> BY DEF Init
<1>2. PICK p : p = [Empty EXCEPT !.kind = k] OBVIOUS
<1>3. payloads = <<p>> /\ payload = p BY <1>1, <1>2, PayloadIs
<1>4. IsPayload(p) /\ \A f \in Fields : p.fields[f] = <<>> BY <1>2, EmptyIs
<1>5. Sound
  <2>1. asked \in DOMAIN RuleChoices /\ lost \in BOOLEAN /\ written = {} /\ ~hurt /\ hurt \in BOOLEAN
    BY DEF Init
  <2> QED BY <1>3, <1>4, <2>1 DEF Sound
<1>6. Heads(<<>>) = {} BY EmptySequence DEF Heads
<1>7. UrlsAccounted BY <1>3, <1>4, <1>6 DEF UrlsAccounted, Accounted, Flagged, Fields
<1>8. NothingStale BY DEF NothingStale, Init
<1> QED BY <1>5, <1>7, <1>8 DEF IInv

\* A step that reads the call leaves a payload whose urls are still accounted for.
LEMMA NormalizingOk ==
  ASSUME IInv, NEW q, Normalizing, Write(q), IsPayload(q),
         (Accounted(payload) => Accounted(q)), (Accounted(payload) /\ Flagged(payload) => Flagged(q))
  PROVE  IInv'
<1>1. payloads' = <<q>> /\ payload' = q BY PayloadIsNext DEF Write
<1>2. written' = {} /\ hurt' = hurt /\ ~hurt /\ asked' = asked /\ lost' = lost
  BY DEF Normalizing, Write, IInv, Sound
<1>3. Sound' BY <1>1, <1>2 DEF Sound, IInv
<1>4. UrlsAccounted' BY <1>1, <1>2 DEF UrlsAccounted, IInv, Accounted, Flagged, Told, Heads
<1>5. NothingStale' BY <1>2 DEF NothingStale
<1> QED BY <1>3, <1>4, <1>5 DEF IInv

\* What test --field writes: two fields, cleared and then written.
LEMMA FieldsOverFacts ==
  ASSUME NEW p, IsPayload(p), NEW f \in DOMAIN Values, NEW g \in DOMAIN Values,
         NEW v \in Values[f] \ {None}, NEW w \in Values[g] \ {None}, f = g => v = w,
         NEW q, q = SetField(SetField(Unset(Unset(p, f), g), f, v), g, w)
  PROVE  /\ IsPayload(q)
         /\ Accounted(p) => Accounted(q)
         /\ Accounted(p) /\ Flagged(p) /\ "unreadable" \notin {f, g} => Flagged(q)
         /\ \A what : "unreadable" \notin {f, g} /\ Told(q, what) =>
              what \notin Gone(f) \cup Gone(g) \/ Cause(f, v, what) \/ Cause(g, w, what)
         /\ f = "command" => q.fields[f][1].spellings[1] = v
         /\ g = "command" => q.fields[g][1].spellings[1] = w
         /\ f = "url" => v \in Heads(q.fields[f])
         /\ g = "url" => w \in Heads(q.fields[g])
<1>1. f \in Fields \ {"domain"} /\ g \in Fields \ {"domain"} BY ValuesAssumption
<1>2. (f = "command" => v \in Values["command"]) /\ (g = "command" => w \in Values["command"])
  OBVIOUS
<1>3. PICK u : u = Unset(p, f) OBVIOUS
<1>4. PICK t : t = Unset(u, g) OBVIOUS
<1>5. PICK r : r = SetField(t, f, v) OBVIOUS
<1>6. q = SetField(r, g, w) BY <1>3, <1>4, <1>5
<1>7. IsPayload(u) /\ \A what : Told(u, what) => what \notin Gone(f)
  BY <1>1, <1>3, UnsetFacts
<1>8. IsPayload(t) /\ \A what : Told(t, what) => Told(u, what) /\ what \notin Gone(g)
  BY <1>1, <1>4, <1>7, UnsetFacts
<1>9. Writes(t, r, f, v) BY <1>1, <1>2, <1>5, <1>8, SetFieldFacts
<1>10. IsPayload(r) BY <1>9 DEF Writes
<1>11. Writes(r, q, g, w) BY <1>1, <1>2, <1>6, <1>10, SetFieldFacts
<1>12. IsPayload(q) BY <1>11 DEF Writes
<1>13. Accounted(p) => Accounted(q)
  BY <1>1, <1>2, <1>3, <1>4, <1>5, <1>6, <1>7, <1>8, <1>10, UnsetAccounts, SetFieldAccounts
<1>14. Accounted(p) /\ Flagged(p) /\ "unreadable" \notin {f, g} => Flagged(q)
  <2> SUFFICES ASSUME Accounted(p), Flagged(p), f # "unreadable", g # "unreadable"
               PROVE  Flagged(q)
    OBVIOUS
  <2>1. Accounted(u) /\ Flagged(u) BY <1>1, <1>3, UnsetAccounts
  <2>2. Accounted(t) /\ Flagged(t) BY <2>1, <1>1, <1>4, <1>7, UnsetAccounts
  <2>3. Accounted(r) /\ Flagged(r) BY <2>2, <1>1, <1>2, <1>5, <1>8, SetFieldAccounts
  <2> QED BY <2>3, <1>1, <1>2, <1>6, <1>10, SetFieldAccounts
<1>15. \A what : Told(q, what) =>
         what \notin Gone(f) \cup Gone(g) \/ Cause(f, v, what) \/ Cause(g, w, what)
  BY <1>7, <1>8, <1>9, <1>11 DEF Writes
<1>16. Leaves(r, q, Derived(g)) BY <1>11 DEF Writes
<1>17. CASE g = "command"
  <2>1. q = SetCommand(r, w) BY <1>6, <1>17 DEF SetField
  <2>2. q.fields[g][1].spellings[1] = w BY <1>2, <1>10, <1>17, <2>1, SetCommandFacts
  <2>3. f = "url" => v \in Heads(q.fields[f])
    <3> SUFFICES ASSUME f = "url" PROVE v \in Heads(q.fields[f]) OBVIOUS
    <3>1. r = SetURL(t, v) BY <1>5 DEF SetField
    <3>2. v \in Heads(r.fields[f]) BY <1>8, <3>1, SetURLFacts, HeadsOfMore
    <3>3. q.fields[f] = r.fields[f] BY <1>1, <1>16, <1>17 DEF Leaves, Derived
    <3> QED BY <3>2, <3>3
  <2> QED BY <1>12, <1>13, <1>14, <1>15, <1>17, <2>2, <2>3
<1>18. CASE g = "url"
  <2>1. q = SetURL(r, w) BY <1>6, <1>18 DEF SetField
  <2>2. Heads(q.fields[g]) = Heads(r.fields[g]) \cup {w}
    BY <1>10, <1>18, <2>1, SetURLFacts, HeadsOfMore
  <2>3. f = "command" => q.fields[f][1].spellings[1] = v
    <3> SUFFICES ASSUME f = "command" PROVE q.fields[f][1].spellings[1] = v OBVIOUS
    <3>1. r = SetCommand(t, v) BY <1>5 DEF SetField
    <3>2. r.fields[f][1].spellings[1] = v BY <1>2, <1>8, <3>1, SetCommandFacts
    <3>3. q.fields[f] = r.fields[f] BY <1>1, <1>16, <1>18 DEF Leaves, Derived
    <3> QED BY <3>2, <3>3
  <2> QED BY <1>12, <1>13, <1>14, <1>15, <1>18, <2>2, <2>3
<1>19. CASE g \notin {"command", "url"}
  <2>1. f = "command" => q.fields[f][1].spellings[1] = v
    <3> SUFFICES ASSUME f = "command" PROVE q.fields[f][1].spellings[1] = v OBVIOUS
    <3>1. r = SetCommand(t, v) BY <1>5 DEF SetField
    <3>2. r.fields[f][1].spellings[1] = v BY <1>2, <1>8, <3>1, SetCommandFacts
    <3>3. q.fields[f] = r.fields[f] BY <1>1, <1>16, <1>19 DEF Leaves, Derived
    <3> QED BY <3>2, <3>3
  <2>2. f = "url" => v \in Heads(q.fields[f])
    <3> SUFFICES ASSUME f = "url" PROVE v \in Heads(q.fields[f]) OBVIOUS
    <3>1. r = SetURL(t, v) BY <1>5 DEF SetField
    <3>2. v \in Heads(r.fields[f]) BY <1>8, <3>1, SetURLFacts, HeadsOfMore
    <3>3. q.fields[f] = r.fields[f] BY <1>1, <1>16, <1>19 DEF Leaves, Derived
    <3> QED BY <3>2, <3>3
  <2> QED BY <1>12, <1>13, <1>14, <1>15, <1>19, <2>1, <2>2
<1> QED BY <1>17, <1>18, <1>19

LEMMA WithFieldsOk == IInv /\ WithFields => IInv'
<1> SUFFICES ASSUME IInv, WithFields PROVE IInv' OBVIOUS
<1>0. PICK f \in DOMAIN Values, g \in DOMAIN Values :
        \E v \in Values[f] \ {None}, w \in Values[g] \ {None} :
          /\ written = {} /\ (f = g => v = w)
          /\ Write(SetField(SetField(Unset(Unset(payload, f), g), f, v), g, w))
          /\ written' = {f, g}
          /\ hurt' = ("unreadable" \in {f, g})
  BY DEF WithFields
<1>1. PICK v \in Values[f] \ {None}, w \in Values[g] \ {None} :
        /\ written = {} /\ (f = g => v = w)
        /\ Write(SetField(SetField(Unset(Unset(payload, f), g), f, v), g, w))
        /\ written' = {f, g}
        /\ hurt' = ("unreadable" \in {f, g})
  BY <1>0
<1>2. PICK q : q = SetField(SetField(Unset(Unset(payload, f), g), f, v), g, w) OBVIOUS
<1>3. payloads' = <<q>> /\ payload' = q /\ asked' = asked /\ lost' = lost
  BY <1>1, <1>2, PayloadIsNext DEF Write
<1>4. IsPayload(payload) /\ Accounted(payload) /\ Flagged(payload)
  BY <1>1 DEF IInv, Sound, UrlsAccounted
<1>5. /\ IsPayload(q) /\ Accounted(q)
      /\ "unreadable" \notin {f, g} => Flagged(q)
      /\ \A what : "unreadable" \notin {f, g} /\ Told(q, what) =>
           what \notin Gone(f) \cup Gone(g) \/ Cause(f, v, what) \/ Cause(g, w, what)
      /\ f = "command" => q.fields[f][1].spellings[1] = v
      /\ g = "command" => q.fields[g][1].spellings[1] = w
      /\ f = "url" => v \in Heads(q.fields[f])
      /\ g = "url" => w \in Heads(q.fields[g])
  BY <1>1, <1>2, <1>4, FieldsOverFacts
<1>6. Sound'
  <2>1. hurt' \in BOOLEAN /\ written' \subseteq DOMAIN Values /\ written' # {} BY <1>1
  <2> QED BY <1>3, <1>5, <2>1 DEF Sound, IInv
<1>7. UrlsAccounted'
  <2>1. ~hurt' => Flagged(q) BY <1>1, <1>5
  <2> QED BY <1>3, <1>5, <2>1 DEF UrlsAccounted, Accounted, Flagged, Told, Heads
<1>8. NothingStale'
  <2> SUFFICES ASSUME "unreadable" \notin {f, g}, NEW h \in {f, g}
               PROVE  /\ h = "command" /\ Told(q, h) => ~ReadLine[q.fields[h][1].spellings[1]].parsed
                      /\ h = "url" /\ Told(q, "domain") =>
                           \E i \in DOMAIN q.fields[h] : DomainOf[q.fields[h][i].spellings[1]] = None
                      /\ h \notin {"command", "url"} => ~Told(q, h)
    <3>1. \A what : Told(q, what) <=> Holds(q.fields["unreadable"], Spelled(what)) BY HoldsIs DEF Told
    <3> QED BY <1>1, <1>3, <3>1 DEF NothingStale, Declared
  <2>1. \A what : Told(q, what) =>
          what \notin Gone(f) \cup Gone(g) \/ Cause(f, v, what) \/ Cause(g, w, what)
    BY <1>5
  <2>2. f # "domain" /\ g # "domain" BY ValuesAssumption
  <2>3. CASE h = "command"
    <3> SUFFICES ASSUME Told(q, h) PROVE ~ReadLine[q.fields[h][1].spellings[1]].parsed BY <2>3
    <3>1. h \in Gone(f) \cup Gone(g) BY <2>3 DEF Gone
    <3>2. Cause(f, v, h) \/ Cause(g, w, h) BY <2>1, <3>1
    <3> QED BY <1>5, <2>3, <3>2 DEF Cause
  <2>4. CASE h = "url"
    <3> SUFFICES ASSUME Told(q, "domain")
                 PROVE  \E i \in DOMAIN q.fields[h] : DomainOf[q.fields[h][i].spellings[1]] = None
      BY <2>4
    <3>1. "domain" \in Gone(f) \cup Gone(g) BY <2>4 DEF Gone
    <3>2. Cause(f, v, "domain") \/ Cause(g, w, "domain") BY <2>1, <3>1
    <3>3. \E u \in Heads(q.fields[h]) : DomainOf[u] = None BY <1>5, <2>2, <2>4, <3>2 DEF Cause
    <3> QED BY <3>3 DEF Heads, Range
  <2>5. CASE h \notin {"command", "url"}
    <3>1. h \in Gone(f) \cup Gone(g) BY <2>5 DEF Gone
    <3> QED BY <2>1, <2>2, <2>5, <3>1 DEF Cause
  <2> QED BY <2>3, <2>4, <2>5
<1> QED BY <1>6, <1>7, <1>8 DEF IInv

LEMMA NextOk == IInv /\ [Next]_vars => IInv'
<1> SUFFICES ASSUME IInv, [Next]_vars PROVE IInv' OBVIOUS
<1>1. IsPayload(payload) /\ "path" \in Fields /\ "model" \in Fields
  BY DEF IInv, Sound, Fields
<1>2. CASE SetOne
  <2>0. PICK f \in DOMAIN Values : \E v \in Values[f] : Normalizing /\ Write(SetField(payload, f, v))
    BY <1>2 DEF SetOne
  <2>1. PICK v \in Values[f] : Normalizing /\ Write(SetField(payload, f, v)) BY <2>0
  <2>2. PICK q : q = SetField(payload, f, v) OBVIOUS
  <2>3. f \in Fields \ {"domain"} /\ (f = "command" => v \in Values["command"])
    BY ValuesAssumption
  <2>4. IsPayload(q) BY <1>1, <2>2, <2>3, SetFieldFacts DEF Writes
  <2>5. (Accounted(payload) => Accounted(q)) /\ (Accounted(payload) /\ Flagged(payload) => Flagged(q))
    BY <1>1, <2>2, <2>3, SetFieldAccounts
  <2> QED BY <2>1, <2>2, <2>4, <2>5, NormalizingOk
<1>3. CASE Rename
  <2>1. PICK from \in Values["path"], to \in Values["path"] :
          Normalizing /\ Write(SetRename(payload, from, to))
    BY <1>3 DEF Rename
  <2>2. PICK q : q = SetRename(payload, from, to) OBVIOUS
  <2>3. Touches(payload, q, "path") BY <1>1, <2>2, SetRenameFacts
  <2>4. (Accounted(payload) => Accounted(q)) /\ (Flagged(payload) => Flagged(q))
    BY <1>1, <2>3, TouchesAccounts
  <2> QED BY <2>1, <2>2, <2>3, <2>4, NormalizingOk DEF Touches
<1>4. CASE Models
  <2>1. PICK m \in Values["model"], n \in Values["model"] :
          Normalizing /\ Write(SetModels(payload, <<m, n>>))
    BY <1>4 DEF Models
  <2>2. PICK q : q = SetModels(payload, <<m, n>>) OBVIOUS
  <2>3. Touches(payload, q, "model") BY <1>1, <2>2, SetModelsFacts
  <2>4. (Accounted(payload) => Accounted(q)) /\ (Flagged(payload) => Flagged(q))
    BY <1>1, <2>3, TouchesAccounts
  <2> QED BY <2>1, <2>2, <2>3, <2>4, NormalizingOk DEF Touches
<1>5. CASE PathSpellings
  <2>1. PICK m \in Values["path"], n \in Values["path"] :
          Normalizing /\ Write(SetPathSpellings(payload, <<m, n>>))
    BY <1>5 DEF PathSpellings
  <2>2. PICK q : q = SetPathSpellings(payload, <<m, n>>) OBVIOUS
  <2>3. Touches(payload, q, "path") BY <1>1, <2>2, SetPathSpellingsFacts
  <2>4. (Accounted(payload) => Accounted(q)) /\ (Flagged(payload) => Flagged(q))
    BY <1>1, <2>3, TouchesAccounts
  <2> QED BY <2>1, <2>2, <2>3, <2>4, NormalizingOk DEF Touches
<1>6. CASE WithFields BY <1>6, WithFieldsOk
<1>7. CASE UNCHANGED vars
  <2>1. payload' = payload BY <1>7 DEF vars, payload
  <2> QED BY <1>7, <2>1 DEF IInv, Sound, UrlsAccounted, Accounted, Flagged, Told, Heads,
                            NothingStale, Declared, Holds, vars
<1> QED BY <1>2, <1>3, <1>4, <1>5, <1>6, <1>7 DEF Next

THEOREM Invariant == Spec => []IInv
<1> QED BY InitOk, NextOk, PTL DEF Spec

\* Sound is the shape every call keeps: one payload, every field a list, an unreadable
\* one included.
THEOREM TypeOk == Spec => []Sound
<1>1. IInv => Sound BY DEF IInv
<1> QED BY <1>1, Invariant, PTL

\* Every url is accounted for, however it was written: its domain is a Candidate or the
\* domain is unreadable, and no domain outlives its url.
THEOREM DomainsAccountedHolds == Spec => []DomainsAccounted
<1>1. IInv => DomainsAccounted
  <2> SUFFICES ASSUME IInv PROVE DomainsAccounted OBVIOUS
  <2>1. Accounted(payload) /\ (~hurt => Flagged(payload)) BY DEF IInv, UrlsAccounted
  <2>2. Told(payload, "domain") <=> Declared("domain") BY HoldsIs DEF Told, Declared
  <2> DEFINE urls == payload.fields["url"]
             domains == payload.fields["domain"]
  <2>3. /\ Heads(urls) = {urls[i].spellings[1] : i \in DOMAIN urls}
        /\ Heads(domains) = {domains[i].spellings[1] : i \in DOMAIN domains}
    BY DEF Heads, Range
  <2> QED BY <2>1, <2>2, <2>3 DEF DomainsAccounted, Accounted, Flagged
<1> QED BY <1>1, Invariant, PTL

\* test --field leaves nothing stale of what it wrote over.
THEOREM NothingStaleHolds == Spec => []NothingStale
<1>1. IInv => NothingStale BY DEF IInv
<1> QED BY <1>1, Invariant, PTL

-----------------------------------------------------------------------------
\* What choose answers: the choice begun can be filled, slot after slot, into one that
\* satisfies the rule.
Pick(p, f, i) == IF p.fields[f] = <<>> THEN i = 0 ELSE i \in DOMAIN p.fields[f]

Fills(r, p, chosen, c) ==
  /\ c \in Seq(Nat) /\ Len(c) = Len(r.fields)
  /\ \A k \in 1..Len(chosen) : c[k] = chosen[k]
  /\ \A k \in Len(chosen) + 1..Len(r.fields) : Pick(p, r.fields[k], c[k])

Fillable(r, p, chosen) == \E c : Fills(r, p, chosen, c) /\ Satisfied(r, p, c)

LEMMA PicksAreNaturals ==
  ASSUME NEW p, IsPayload(p), NEW f \in Fields, NEW i, Pick(p, f, i)
  PROVE  i \in Nat
<1>1. DOMAIN p.fields[f] = 1..Len(p.fields[f]) BY SequenceFacts DEF IsPayload
<1> QED BY <1>1 DEF Pick

LEMMA FillableStep ==
  ASSUME NEW r, r.fields \in Seq(Fields), NEW p, IsPayload(p),
         NEW chosen \in Seq(Nat), Len(chosen) <= Len(r.fields)
  PROVE  Fillable(r, p, chosen) <=>
           IF Len(chosen) = Len(r.fields) THEN Satisfied(r, p, chosen)
           ELSE \E i \in Nat : /\ Pick(p, r.fields[Len(chosen) + 1], i)
                               /\ Fillable(r, p, Append(chosen, i))
<1> DEFINE n == Len(r.fields)
           m == Len(chosen)
<1>1. n \in Nat /\ m \in Nat BY LenProperties
<1>2. CASE m = n
  <2>1. Fills(r, p, chosen, chosen) BY <1>1, <1>2 DEF Fills
  <2>2. \A c : Fills(r, p, chosen, c) => c = chosen BY <1>1, <1>2, SeqEqual DEF Fills
  <2> QED BY <1>2, <2>1, <2>2 DEF Fillable
<1>3. CASE m # n
  <2>1. m + 1 \in 1..n /\ m < n /\ r.fields[m + 1] \in Fields BY <1>1, <1>3
  <2>2. \A i \in Nat : LET more == Append(chosen, i) IN
          Len(more) = m + 1 /\ more[m + 1] = i /\ \A k \in 1..m : more[k] = chosen[k]
    BY <1>1
  <2>3. ASSUME NEW i \in Nat, NEW c
        PROVE  Fills(r, p, Append(chosen, i), c) <=>
                 /\ c \in Seq(Nat) /\ Len(c) = n /\ c[m + 1] = i
                 /\ \A k \in 1..m : c[k] = chosen[k]
                 /\ \A k \in m + 2..n : Pick(p, r.fields[k], c[k])
    <3> DEFINE more == Append(chosen, i)
    <3>1. Len(more) = m + 1 /\ more[m + 1] = i /\ \A k \in 1..m : more[k] = chosen[k] BY <2>2
    <3> HIDE DEF more
    <3>2. (\A k \in 1..m + 1 : c[k] = more[k]) <=>
            c[m + 1] = i /\ \A k \in 1..m : c[k] = chosen[k]
      <4>1. \A k : k \in 1..m + 1 <=> k \in 1..m \/ k = m + 1 BY <1>1
      <4> QED BY <3>1, <4>1
    <3>3. (m + 1) + 1 = m + 2 BY <1>1
    <3> QED BY <3>1, <3>2, <3>3 DEF Fills, more
  <2>4. ASSUME NEW c, Fills(r, p, chosen, c)
        PROVE  /\ c[m + 1] \in Nat /\ Pick(p, r.fields[m + 1], c[m + 1])
               /\ Fills(r, p, Append(chosen, c[m + 1]), c)
    <3>1. m + 1 \in m + 1..n BY <1>1, <2>1
    <3>2. Pick(p, r.fields[m + 1], c[m + 1]) BY <2>4, <3>1 DEF Fills
    <3>3. c[m + 1] \in Nat BY <2>1, <2>4 DEF Fills
    <3>4. \A k \in m + 2..n : k \in m + 1..n BY <1>1
    <3> QED BY <2>3, <2>4, <3>2, <3>3, <3>4 DEF Fills
  <2>5. ASSUME NEW i \in Nat, Pick(p, r.fields[m + 1], i), NEW c, Fills(r, p, Append(chosen, i), c)
        PROVE  Fills(r, p, chosen, c)
    <3>1. \A k : k \in m + 1..n => k = m + 1 \/ k \in m + 2..n BY <1>1
    <3>2. /\ c \in Seq(Nat) /\ Len(c) = n /\ c[m + 1] = i
          /\ \A k \in 1..m : c[k] = chosen[k]
          /\ \A k \in m + 2..n : Pick(p, r.fields[k], c[k])
      BY <2>3, <2>5
    <3>3. Pick(p, r.fields[m + 1], c[m + 1]) BY <2>5, <3>2
    <3>4. \A k \in m + 1..n : Pick(p, r.fields[k], c[k]) BY <3>1, <3>2, <3>3
    <3> QED BY <3>2, <3>4 DEF Fills
  <2> QED BY <1>3, <2>4, <2>5 DEF Fillable
<1> QED BY <1>2, <1>3

\* The recursion of choose, and its solution.
Begun(r) == {c \in Seq(Nat) : Len(c) <= Len(r.fields)}
ChooseBody(r, p, choose) ==
  [chosen \in Begun(r) |->
     IF Len(chosen) = Len(r.fields) THEN Satisfied(r, p, chosen)
     ELSE LET cands == p.fields[r.fields[Len(chosen) + 1]] IN
          IF cands = <<>> THEN choose[Append(chosen, 0)]
          ELSE \E i \in DOMAIN cands : choose[Append(chosen, i)]]

LEMMA ChooseStep ==
  ASSUME NEW r, r.fields \in Seq(Fields), NEW p, IsPayload(p), NEW choose, NEW chosen \in Begun(r)
  PROVE  ChooseBody(r, p, choose)[chosen] <=>
           IF Len(chosen) = Len(r.fields) THEN Satisfied(r, p, chosen)
           ELSE \E i \in Nat : Pick(p, r.fields[Len(chosen) + 1], i) /\ choose[Append(chosen, i)]
<1>1. CASE Len(chosen) = Len(r.fields) BY <1>1 DEF ChooseBody
<1>2. CASE Len(chosen) # Len(r.fields)
  <2> DEFINE f == r.fields[Len(chosen) + 1]
             cands == p.fields[f]
  <2>1. f \in Fields
    <3>1. chosen \in Seq(Nat) /\ Len(chosen) <= Len(r.fields) BY DEF Begun
    <3>2. Len(chosen) \in Nat /\ Len(r.fields) \in Nat BY <3>1, LenProperties
    <3> QED BY <1>2, <3>1, <3>2
  <2>2. ChooseBody(r, p, choose)[chosen] <=>
          IF cands = <<>> THEN choose[Append(chosen, 0)]
          ELSE \E i \in DOMAIN cands : choose[Append(chosen, i)]
    BY <1>2 DEF ChooseBody
  <2>3. \A i : Pick(p, f, i) => i \in Nat BY <2>1, PicksAreNaturals
  <2> HIDE DEF f
  <2>4. CASE cands = <<>>
    <3>1. \A i : Pick(p, f, i) <=> i = 0 BY <2>4 DEF Pick
    <3>2. ChooseBody(r, p, choose)[chosen] <=> choose[Append(chosen, 0)] BY <2>2, <2>4
    <3> QED BY <1>2, <2>3, <3>1, <3>2 DEF f
  <2>5. CASE cands # <<>>
    <3>1. \A i : Pick(p, f, i) <=> i \in DOMAIN cands BY <2>5 DEF Pick
    <3>2. ChooseBody(r, p, choose)[chosen] <=> \E i \in DOMAIN cands : choose[Append(chosen, i)]
      BY <2>2, <2>5
    <3> QED BY <1>2, <2>3, <3>1, <3>2 DEF f
  <2> QED BY <2>4, <2>5
<1> QED BY <1>1, <1>2

LEMMA MoreChoices ==
  ASSUME NEW r, r.fields \in Seq(Fields), NEW chosen \in Begun(r), Len(chosen) # Len(r.fields),
         NEW i \in Nat
  PROVE  Append(chosen, i) \in Begun(r) /\ Len(Append(chosen, i)) = Len(chosen) + 1
<1>1. chosen \in Seq(Nat) /\ Len(chosen) <= Len(r.fields) BY DEF Begun
<1>2. Len(chosen) \in Nat /\ Len(r.fields) \in Nat BY <1>1, LenProperties
<1>3. Append(chosen, i) \in Seq(Nat) /\ Len(Append(chosen, i)) = Len(chosen) + 1 BY <1>1
<1> QED BY <1>1, <1>2, <1>3 DEF Begun

LEMMA ChooseSolved ==
  ASSUME NEW r, r.fields \in Seq(Fields), NEW p, IsPayload(p)
  PROVE  \E choose : choose = ChooseBody(r, p, choose)
<1> DEFINE g == [chosen \in Begun(r) |-> Fillable(r, p, chosen)]
           h == ChooseBody(r, p, g)
<1>1. \A chosen \in Begun(r) : g[chosen] <=> Fillable(r, p, chosen) OBVIOUS
<1>2. DOMAIN g = Begun(r) /\ \A chosen \in Begun(r) : g[chosen] \in BOOLEAN
  BY DEF Fillable
<1> HIDE DEF g
<1>3. ASSUME NEW chosen \in Begun(r) PROVE h[chosen] <=> g[chosen]
  <2>1. chosen \in Seq(Nat) /\ Len(chosen) <= Len(r.fields) BY DEF Begun
  <2>2. CASE Len(chosen) = Len(r.fields)
    <3>1. h[chosen] <=> Satisfied(r, p, chosen) BY <2>2, ChooseStep
    <3>2. Fillable(r, p, chosen) <=> Satisfied(r, p, chosen) BY <2>1, <2>2, FillableStep
    <3> QED BY <1>1, <3>1, <3>2
  <2>3. CASE Len(chosen) # Len(r.fields)
    <3> DEFINE f == r.fields[Len(chosen) + 1]
    <3>1. h[chosen] <=> \E i \in Nat : Pick(p, f, i) /\ g[Append(chosen, i)] BY <2>3, ChooseStep
    <3>2. Fillable(r, p, chosen) <=> \E i \in Nat : Pick(p, f, i) /\ Fillable(r, p, Append(chosen, i))
      BY <2>1, <2>3, FillableStep
    <3>3. \A i \in Nat : g[Append(chosen, i)] <=> Fillable(r, p, Append(chosen, i))
      BY <1>1, <2>3, MoreChoices
    <3> QED BY <1>1, <3>1, <3>2, <3>3
  <2> QED BY <2>2, <2>3
<1>4. \A chosen \in Begun(r) : h[chosen] \in BOOLEAN
  <2>1. ASSUME NEW chosen \in Begun(r) PROVE h[chosen] \in BOOLEAN
    <3>1. CASE Len(chosen) = Len(r.fields) BY <3>1 DEF ChooseBody, Satisfied
    <3>2. CASE Len(chosen) # Len(r.fields)
      <4> DEFINE cands == p.fields[r.fields[Len(chosen) + 1]]
      <4>1. h[chosen] = IF cands = <<>> THEN g[Append(chosen, 0)]
                        ELSE \E i \in DOMAIN cands : g[Append(chosen, i)]
        BY <3>2 DEF ChooseBody
      <4>2. g[Append(chosen, 0)] \in BOOLEAN BY <1>2, <3>2, MoreChoices
      <4> QED BY <4>1, <4>2
    <3> QED BY <3>1, <3>2
  <2> QED BY <2>1
<1>5. \A chosen \in Begun(r) : h[chosen] = g[chosen] BY <1>2, <1>3, <1>4
<1>6. g = h
  <2>1. g = [chosen \in Begun(r) |-> g[chosen]] BY DEF g
  <2>2. h = [chosen \in Begun(r) |-> h[chosen]] BY DEF ChooseBody
  <2> HIDE DEF h
  <2> QED BY <1>5, <2>1, <2>2
<1> QED BY <1>6

\* choose is a search: it answers that some choice, one Candidate a field and none where
\* there is none, satisfies the rule, whatever the order it tries them in.
LEMMA ChooseIs ==
  ASSUME NEW r, r.fields \in Seq(Fields), NEW p, IsPayload(p)
  PROVE  Choose(r, p) <=> Fillable(r, p, <<>>)
<1> DEFINE choose == CHOOSE f : f = ChooseBody(r, p, f)
           n == Len(r.fields)
           T == {m \in Nat : \A chosen \in Begun(r) :
                   Len(chosen) + m = n => (choose[chosen] <=> Fillable(r, p, chosen))}
<1>1. choose = ChooseBody(r, p, choose) BY ChooseSolved
<1>2. Choose(r, p) <=> choose[<<>>] BY DEF Choose, ChooseBody, Begun
<1> HIDE DEF choose
<1>3. n \in Nat BY LenProperties
<1>4. ASSUME NEW chosen \in Begun(r)
      PROVE  choose[chosen] <=>
               IF Len(chosen) = n THEN Satisfied(r, p, chosen)
               ELSE \E i \in Nat : Pick(p, r.fields[Len(chosen) + 1], i) /\ choose[Append(chosen, i)]
  BY <1>1, ChooseStep
<1>5. ASSUME NEW chosen \in Begun(r)
      PROVE  chosen \in Seq(Nat) /\ Len(chosen) <= n /\ Len(chosen) \in Nat
  BY LenProperties DEF Begun
<1>6. 0 \in T
  <2> SUFFICES ASSUME NEW chosen \in Begun(r), Len(chosen) + 0 = n
               PROVE  choose[chosen] <=> Fillable(r, p, chosen)
    OBVIOUS
  <2>1. Len(chosen) = n BY <1>3, <1>5
  <2>2. choose[chosen] <=> Satisfied(r, p, chosen) BY <1>4, <2>1
  <2>3. Fillable(r, p, chosen) <=> Satisfied(r, p, chosen) BY <1>5, <2>1, FillableStep
  <2> QED BY <2>2, <2>3
<1>7. ASSUME NEW m \in Nat, m \in T PROVE m + 1 \in T
  <2> SUFFICES ASSUME NEW chosen \in Begun(r), Len(chosen) + (m + 1) = n
               PROVE  choose[chosen] <=> Fillable(r, p, chosen)
    OBVIOUS
  <2>1. Len(chosen) # n /\ (Len(chosen) + 1) + m = n BY <1>3, <1>5
  <2> DEFINE f == r.fields[Len(chosen) + 1]
  <2>2. choose[chosen] <=> \E i \in Nat : Pick(p, f, i) /\ choose[Append(chosen, i)]
    BY <1>4, <2>1
  <2>3. Fillable(r, p, chosen) <=> \E i \in Nat : Pick(p, f, i) /\ Fillable(r, p, Append(chosen, i))
    BY <1>5, <2>1, FillableStep
  <2>4. \A i \in Nat : choose[Append(chosen, i)] <=> Fillable(r, p, Append(chosen, i))
    BY <1>7, <2>1, MoreChoices
  <2> QED BY <2>2, <2>3, <2>4
<1>8. \A m \in Nat : m \in T
  <2> HIDE DEF T
  <2> QED BY <1>6, <1>7, EveryNatural
<1>9. <<>> \in Begun(r) /\ Len(<<>>) + n = n BY <1>3 DEF Begun
<1>10. choose[<<>>] <=> Fillable(r, p, <<>>) BY <1>3, <1>8, <1>9
<1> QED BY <1>2, <1>10

-----------------------------------------------------------------------------
\* The payloads a rule is asked of: the call's, and one for every file its line names.
LEMMA NamedFileFacts ==
  ASSUME NEW call, IsPayload(call), NEW file
  PROVE  IsPayload(NamedFile(call, file))
<1> DEFINE kind == IF file.write THEN "file_edit" ELSE "file_read"
           tool == call.fields["tool"]
           none == [f \in Fields |-> <<>>]
           fs == [none EXCEPT !["tool"] = tool]
           q == [Empty EXCEPT !.kind = kind, !.fields["tool"] = tool]
           no == FALSE
           path == <<Spelled(file.path)>>
<1>1. "tool" \in Fields /\ "path" \in Fields BY DEF Fields
<1>2. IsSequence(tool) BY <1>1 DEF IsPayload
<1>3. q = [kind |-> kind, fields |-> fs, files |-> <<>>, continued |-> no]
  <2>1. Empty = [kind |-> "shell", fields |-> none, files |-> <<>>, continued |-> no] BY DEF Empty
  <2> HIDE DEF none, kind, tool, no
  <2>2. PICK e : e = [Empty EXCEPT !.kind = kind] OBVIOUS
  <2>3. e = [kind |-> kind, fields |-> none, files |-> <<>>, continued |-> no] BY <2>1, <2>2
  <2>4. q = [e EXCEPT !.fields["tool"] = tool] BY <2>2
  <2> QED BY <2>3, <2>4
<1>4. fs = [f \in Fields |-> IF f = "tool" THEN tool ELSE <<>>] OBVIOUS
<1>5. NamedFile(call, file) = IF file.unreadable THEN Unreadable(With(q, "path", path), "path")
                              ELSE SetField(q, "path", file.path)
  BY DEF NamedFile
<1> HIDE DEF q, fs, kind, tool, no
<1>6. \A f \in Fields : IsSequence(fs[f]) BY <1>2, <1>4, EmptySequence
<1>7. q.kind = kind /\ q.fields = fs /\ q.files = <<>> /\ fs = [f \in Fields |-> fs[f]]
  BY <1>3, <1>4
<1>8. IsPayload(q) BY <1>3, <1>6, <1>7, EmptySequence DEF IsPayload
<1>9. IsPayload(SetField(q, "path", file.path)) BY <1>8, SetPathFacts
<1>10. IsSequence(path) BY OneFacts
<1> HIDE DEF path
<1>11. IsPayload(With(q, "path", path)) BY <1>1, <1>8, <1>10, WithFacts
<1>12. IsPayload(Unreadable(With(q, "path", path), "path")) BY <1>11, UnreadableFacts
<1> QED BY <1>5, <1>9, <1>12

LEMMA WithFilesFacts ==
  ASSUME NEW call, IsPayload(call)
  PROVE  IsSequence(WithFiles(call)) /\ \A p \in Range(WithFiles(call)) : IsPayload(p)
<1> DEFINE each == [i \in DOMAIN call.files |-> NamedFile(call, call.files[i])]
           more == IF call.kind # "shell" THEN <<>> ELSE each
<1>1. IsSequence(call.files) BY DEF IsPayload
<1>2. IsSequence(each) BY <1>1, MappedFacts
<1>3. \A p \in Range(each) : IsPayload(p) BY NamedFileFacts DEF Range
<1> HIDE DEF each
<1>4. IsSequence(more) /\ \A p \in Range(more) : IsPayload(p) BY <1>2, <1>3, EmptySequence
<1>5. WithFiles(call) = <<call>> \o more BY DEF WithFiles, each
<1> HIDE DEF more
<1>6. IsSequence(<<call>> \o more) /\ Range(<<call>> \o more) = {call} \cup Range(more)
  BY <1>4, OneFacts, JoinFacts
<1> QED BY <1>4, <1>5, <1>6

\* Lists of lists, where there is one.
LEMMA FlattenOne == ASSUME NEW s PROVE FlattenSeq(<<s>>) = s
<1> DEFINE one == <<s>>
           body(f) == [i \in 1..Len(one) |-> IF i = 1 THEN one[i] ELSE f[i - 1] \o one[i]]
           flatten == CHOOSE f : f = body(f)
           g == [i \in 1..1 |-> s]
<1>1. Len(one) = 1 /\ one[1] = s OBVIOUS
<1>2. FlattenSeq(one) = flatten[Len(one)] BY <1>1 DEF FlattenSeq
<1> HIDE DEF one
<1>3. \A i \in 1..1 : i = 1 OBVIOUS
<1>4. g = body(g) BY <1>1, <1>3
<1>5. flatten = body(flatten) BY <1>4
<1> HIDE DEF flatten
<1>6. flatten[1] = s BY <1>1, <1>5
<1> QED BY <1>1, <1>2, <1>6 DEF one

LEMMA PayloadsFacts ==
  ASSUME Sound PROVE \A i \in DOMAIN Payloads : IsPayload(Payloads[i])
<1> DEFINE each == [i \in DOMAIN payloads |-> WithFiles(payloads[i])]
           all == WithFiles(payload)
<1>1. payloads = <<payload>> /\ IsPayload(payload) BY DEF Sound
<1>2. each = <<WithFiles(payload)>>
  <2>1. DOMAIN payloads = 1..1 /\ payloads[1] = payload BY <1>1
  <2>2. \A i \in 1..1 : i = 1 OBVIOUS
  <2>3. each = [i \in 1..1 |-> WithFiles(payload)] BY <2>1, <2>2
  <2> QED BY <2>3
<1>3. FlattenSeq(each) = all BY <1>2, FlattenOne
<1>4. Payloads = [i \in DOMAIN all |-> IF lost THEN Unreadable(all[i], "rules") ELSE all[i]]
  BY <1>3 DEF Payloads, Yield
<1>5. \A i \in DOMAIN all : IsPayload(all[i]) BY <1>1, WithFilesFacts DEF Range
<1> HIDE DEF all
<1>6. \A i \in DOMAIN all : IsPayload(Unreadable(all[i], "rules")) BY <1>5, UnreadableFacts
<1> QED BY <1>4, <1>5, <1>6

-----------------------------------------------------------------------------
\* A rule's fields: every one a condition names, each with a slot of its own.
LEMMA RuleFacts ==
  ASSUME asked \in DOMAIN RuleChoices
  PROVE  /\ rule.fields \in Seq(Fields) /\ Range(rule.fields) = Named(rule)
         /\ \A k \in 1..Len(rule.fields) : Slot(rule, rule.fields[k]) = k /\ rule.fields[k] \in Named(rule)
         /\ \A f \in Named(rule) :
              Slot(rule, f) \in 1..Len(rule.fields) /\ rule.fields[Slot(rule, f)] = f
         /\ \A t \in Terms(rule) : t.neg \in BOOLEAN /\ t.field \in Named(rule)
<1>1. /\ rule.fields \in Seq(Fields) /\ Range(rule.fields) = Named(rule)
      /\ \A i, j \in DOMAIN rule.fields : rule.fields[i] = rule.fields[j] => i = j
      /\ \A t \in Terms(rule) : t.neg \in BOOLEAN
  BY RulesAssumption DEF rule
<1>2. DOMAIN rule.fields = 1..Len(rule.fields) BY <1>1, LenProperties
<1>3. \A f \in Named(rule) : \E i \in DOMAIN rule.fields : rule.fields[i] = f BY <1>1 DEF Range
<1>4. \A f \in Named(rule) : Slot(rule, f) \in DOMAIN rule.fields /\ rule.fields[Slot(rule, f)] = f
  BY <1>3 DEF Slot
<1>5. \A k \in DOMAIN rule.fields : rule.fields[k] \in Named(rule) BY <1>1 DEF Range
<1>6. \A k \in DOMAIN rule.fields : Slot(rule, rule.fields[k]) = k BY <1>1, <1>4, <1>5
<1>7. \A t \in Terms(rule) : t.field \in Named(rule) BY DEF Named
<1> QED BY <1>1, <1>2, <1>4, <1>5, <1>6, <1>7

\* What a term asks of the Candidate chosen for its field.
Asks(t, c) ==
  IF t.neg THEN ~c.whole /\ \A j \in DOMAIN c.spellings : c.spellings[j] \notin t.hits
  ELSE \E j \in DOMAIN c.spellings : c.spellings[j] \in t.hits

LEMMA MeetsIs ==
  ASSUME NEW t, t.neg \in BOOLEAN, NEW cands, NEW i
  PROVE  Meets(t, cands, i) <=> i # 0 /\ Asks(t, cands[i])
<1>1. CASE t.neg = TRUE BY <1>1 DEF Meets, Asks
<1>2. CASE t.neg = FALSE BY <1>2 DEF Meets, Asks
<1> QED BY <1>1, <1>2

\* Of a payload: the choice by fields is the choice by slots.
LEMMA ChoiceOfFields ==
  ASSUME asked \in DOMAIN RuleChoices, NEW p, IsPayload(p)
  PROVE  LET carried == {f \in Named(rule) : Has(p, f)} IN
         Choose(rule, p) <=>
           \E pick \in [carried -> UNION {DOMAIN p.fields[f] : f \in carried}] :
             /\ \A f \in carried : pick[f] <= Len(p.fields[f])
             /\ \A k \in DOMAIN rule.conditions : \E t \in rule.conditions[k] :
                  t.field \in carried /\ Asks(t, p.fields[t.field][pick[t.field]])
<1> DEFINE carried == {f \in Named(rule) : Has(p, f)}
           every == UNION {DOMAIN p.fields[f] : f \in carried}
           n == Len(rule.fields)
           Meant(pick) ==
             /\ \A f \in carried : pick[f] <= Len(p.fields[f])
             /\ \A k \in DOMAIN rule.conditions : \E t \in rule.conditions[k] :
                  t.field \in carried /\ Asks(t, p.fields[t.field][pick[t.field]])
<1>1. /\ rule.fields \in Seq(Fields) /\ n \in Nat
      /\ \A k \in 1..n : Slot(rule, rule.fields[k]) = k /\ rule.fields[k] \in Named(rule)
      /\ \A f \in Named(rule) : Slot(rule, f) \in 1..n /\ rule.fields[Slot(rule, f)] = f
      /\ \A f \in Named(rule) : f \in Fields
  BY RuleFacts, LenProperties
<1>2. \A k \in DOMAIN rule.conditions : \A t \in rule.conditions[k] :
        t.neg \in BOOLEAN /\ t.field \in Named(rule)
  <2>1. \A k \in DOMAIN rule.conditions : \A t \in rule.conditions[k] : t \in Terms(rule)
    BY DEF Terms
  <2> QED BY <2>1, RuleFacts
<1>3. \A f \in Fields : Len(p.fields[f]) \in Nat /\ DOMAIN p.fields[f] = 1..Len(p.fields[f])
  BY SequenceFacts DEF IsPayload
<1>4. ASSUME NEW c, Fills(rule, p, <<>>, c), Satisfied(rule, p, c)
      PROVE  \E pick \in [carried -> every] : Meant(pick)
  <2> DEFINE pick == [f \in carried |-> c[Slot(rule, f)]]
  <2>1. \A k \in 1..n : Pick(p, rule.fields[k], c[k]) BY <1>1, <1>4 DEF Fills
  <2>2. \A f \in Named(rule) : Pick(p, f, c[Slot(rule, f)]) BY <1>1, <2>1
  <2>3. \A f \in carried : c[Slot(rule, f)] \in DOMAIN p.fields[f] BY <2>2 DEF Pick, Has
  <2>4. pick \in [carried -> every] BY <2>3
  <2>5. \A f \in carried : pick[f] <= Len(p.fields[f]) BY <1>1, <1>3, <2>3
  <2>6. ASSUME NEW k \in DOMAIN rule.conditions
        PROVE  \E t \in rule.conditions[k] :
                 t.field \in carried /\ Asks(t, p.fields[t.field][pick[t.field]])
    <3>1. PICK t \in rule.conditions[k] : Meets(t, p.fields[t.field], c[Slot(rule, t.field)])
      BY <1>4 DEF Satisfied
    <3>2. t.neg \in BOOLEAN /\ t.field \in Named(rule) BY <1>2
    <3>3. c[Slot(rule, t.field)] # 0 /\ Asks(t, p.fields[t.field][c[Slot(rule, t.field)]])
      BY <3>1, <3>2, MeetsIs
    <3>4. t.field \in carried BY <2>2, <3>2, <3>3 DEF Pick, Has
    <3> QED BY <3>3, <3>4
  <2>7. Meant(pick) BY <2>5, <2>6
  <2> QED BY <2>4, <2>7
<1>5. ASSUME NEW pick \in [carried -> every], Meant(pick)
      PROVE  \E c : Fills(rule, p, <<>>, c) /\ Satisfied(rule, p, c)
  <2> DEFINE c == [k \in 1..n |-> IF rule.fields[k] \in carried THEN pick[rule.fields[k]] ELSE 0]
  <2>1. \A f \in carried : pick[f] \in 1..Len(p.fields[f]) /\ pick[f] \in Nat /\ f \in Fields
    <3> SUFFICES ASSUME NEW f \in carried
                 PROVE  pick[f] \in 1..Len(p.fields[f]) /\ pick[f] \in Nat /\ f \in Fields
      OBVIOUS
    <3>1. PICK g \in carried : pick[f] \in DOMAIN p.fields[g] BY <1>5
    <3>2. pick[f] \in 1..Len(p.fields[g]) /\ Len(p.fields[g]) \in Nat BY <1>1, <1>3, <3>1
    <3>3. pick[f] <= Len(p.fields[f]) /\ Len(p.fields[f]) \in Nat /\ f \in Fields BY <1>1, <1>3, <1>5
    <3> QED BY <3>2, <3>3
  <2>2. c \in Seq(Nat) /\ Len(c) = n
    <3>1. c \in [1..n -> Nat] BY <2>1
    <3>2. n \in Nat BY <1>1
    <3> HIDE DEF c, n
    <3> QED BY <3>1, <3>2
  <2>3. \A k \in 1..n : Pick(p, rule.fields[k], c[k])
    BY <1>1, <1>3, <2>1 DEF Pick, Has
  <2>4. Fills(rule, p, <<>>, c)
    <3>1. Len(<<>>) = 0 /\ \A k \in 1..0 : FALSE OBVIOUS
    <3>2. \A k \in Len(<<>>) + 1..n : k \in 1..n BY <1>1, <3>1
    <3>3. \A k \in 1..Len(<<>>) : c[k] = <<>>[k] BY <3>1
    <3>4. \A k \in Len(<<>>) + 1..n : Pick(p, rule.fields[k], c[k]) BY <2>3, <3>2
    <3> HIDE DEF c
    <3> QED BY <2>2, <3>3, <3>4 DEF Fills
  <2>5. ASSUME NEW k \in DOMAIN rule.conditions
        PROVE  \E t \in rule.conditions[k] : Meets(t, p.fields[t.field], c[Slot(rule, t.field)])
    <3>1. PICK t \in rule.conditions[k] :
            t.field \in carried /\ Asks(t, p.fields[t.field][pick[t.field]])
      BY <1>5
    <3>2. c[Slot(rule, t.field)] = pick[t.field] BY <1>1, <3>1
    <3>3. pick[t.field] # 0 BY <1>1, <1>3, <2>1, <3>1
    <3>4. t.neg \in BOOLEAN BY <1>2
    <3> HIDE DEF c
    <3>5. c[Slot(rule, t.field)] # 0 /\ Asks(t, p.fields[t.field][c[Slot(rule, t.field)]])
      BY <3>1, <3>2, <3>3
    <3>6. Meets(t, p.fields[t.field], c[Slot(rule, t.field)]) BY <3>4, <3>5, MeetsIs
    <3> QED BY <3>6
  <2>6. Satisfied(rule, p, c) BY <2>5 DEF Satisfied
  <2> QED BY <2>4, <2>6
<1>6. Choose(rule, p) <=> \E c : Fills(rule, p, <<>>, c) /\ Satisfied(rule, p, c)
  BY <1>1, ChooseIs DEF Fillable
<1> QED BY <1>4, <1>5, <1>6

\* A rule matches a payload when some choice of one Candidate per field it names, the
\* absent ones left out, meets a term of every condition: whatever the order of the
\* search, and of however many fields and Candidates.
THEOREM MatchIsAChoiceHolds == Spec => []MatchIsAChoice
<1>1. IInv => MatchIsAChoice
  <2> SUFFICES ASSUME IInv, NEW i \in DOMAIN Payloads
               PROVE  LET p == Payloads[i]
                          carried == {f \in Named(rule) : Has(p, f)} IN
                      Choose(rule, p) <=>
                        \E pick \in [carried -> UNION {DOMAIN p.fields[f] : f \in carried}] :
                          /\ \A f \in carried : pick[f] <= Len(p.fields[f])
                          /\ \A k \in DOMAIN rule.conditions : \E t \in rule.conditions[k] :
                               t.field \in carried /\ Asks(t, p.fields[t.field][pick[t.field]])
    BY DEF MatchIsAChoice, Matches, Asks
  <2>1. asked \in DOMAIN RuleChoices /\ IsPayload(Payloads[i]) BY PayloadsFacts DEF IInv, Sound
  <2> QED BY <2>1, ChoiceOfFields
<1> QED BY <1>1, Invariant, PTL

-----------------------------------------------------------------------------
\* A payload with more of what another has, each Candidate where it was.
Extends(p, q) ==
  q.kind = p.kind /\ \A f \in Fields : \A i \in DOMAIN p.fields[f] :
    i \in DOMAIN q.fields[f] /\ q.fields[f][i] = p.fields[f][i]

LEMMA GrownExtends ==
  ASSUME NEW p, NEW q, NEW f \in Fields, NEW x, Leaves(p, q, {f}), Grown(p.fields[f], q.fields[f], x)
  PROVE  Extends(p, q)
<1>1. \A g \in Fields : g # f => q.fields[g] = p.fields[g] BY DEF Leaves
<1> QED BY <1>1 DEF Grown, Extends, Leaves

\* One more url, grant or entry in unreadable.
LEMMA MoreExtends ==
  ASSUME NEW p, IsPayload(p), NEW f \in {"url", "network_grant", "unreadable"}, NEW v,
         NEW q, q = SetField(p, f, v)
  PROVE  IsPayload(q) /\ Extends(p, q)
<1>1. f \in Fields \ {"domain"} /\ f # "command" BY DEF Fields
<1>2. IsPayload(q) BY <1>1, SetFieldFacts DEF Writes
<1>3. CASE v = None
  <2>1. q = p BY <1>3 DEF SetField
  <2> QED BY <1>2, <2>1 DEF Extends
<1>4. CASE v # None /\ f = "url"
  <2>1. q = SetURL(p, v) BY <1>4 DEF SetField
  <2>2. /\ Leaves(p, q, {"url", "domain", "unreadable"})
        /\ Grown(p.fields["url"], q.fields["url"], Spelled(v))
    BY <2>1, SetURLFacts
  <2>3. CASE DomainOf[v] = None
    <3>1. q.fields["domain"] = p.fields["domain"]
          /\ Grown(p.fields["unreadable"], q.fields["unreadable"], Spelled("domain"))
      BY <2>1, <2>3, SetURLFacts
    <3> QED BY <1>2, <2>2, <3>1 DEF Grown, Extends, Leaves
  <2>4. CASE DomainOf[v] # None
    <3>1. q.fields["unreadable"] = p.fields["unreadable"]
          /\ Grown(p.fields["domain"], q.fields["domain"], Spelled(DomainOf[v]))
      BY <2>1, <2>4, SetURLFacts
    <3> QED BY <1>2, <2>2, <3>1 DEF Grown, Extends, Leaves
  <2> QED BY <2>3, <2>4
<1>5. CASE v # None /\ f = "network_grant"
  <2> DEFINE more == Append(p.fields[f], Spelled(Host[v]))
  <2>1. q = IF Host[v] = None THEN p ELSE With(p, f, more) BY <1>5 DEF SetField
  <2>2. Grown(p.fields[f], more, Spelled(Host[v]))
    <3>1. IsSequence(p.fields[f]) BY <1>1 DEF IsPayload
    <3> QED BY <3>1, AppendFacts DEF Grown
  <2> HIDE DEF more
  <2>3. CASE q = p BY <1>2, <2>3 DEF Extends
  <2>4. CASE q = With(p, f, more)
    <3>1. IsSequence(more) BY <2>2 DEF Grown
    <3>2. Leaves(p, q, {f}) /\ q.fields[f] = more BY <1>1, <2>4, <3>1, WithFacts
    <3> QED BY <1>1, <1>2, <2>2, <3>2, GrownExtends
  <2> QED BY <2>1, <2>3, <2>4
<1>6. CASE v # None /\ f = "unreadable"
  <2>1. q = Unreadable(p, v) BY <1>6 DEF SetField
  <2>2. Leaves(p, q, {"unreadable"}) /\ Grown(p.fields["unreadable"], q.fields["unreadable"], Spelled(v))
    BY <2>1, UnreadableFacts
  <2> QED BY <1>1, <1>2, <1>6, <2>2, GrownExtends
<1> QED BY <1>3, <1>4, <1>5, <1>6

\* A choice that satisfies a rule satisfies it in a payload that says more, where the
\* fields that were absent and no longer are give any Candidate: no term was met there.
LEMMA ChooseMonotone ==
  ASSUME asked \in DOMAIN RuleChoices, NEW p, IsPayload(p), NEW q, IsPayload(q), Extends(p, q),
         Choose(rule, p)
  PROVE  Choose(rule, q)
<1> DEFINE n == Len(rule.fields)
<1>1. /\ rule.fields \in Seq(Fields) /\ n \in Nat
      /\ \A f \in Named(rule) : Slot(rule, f) \in 1..n /\ rule.fields[Slot(rule, f)] = f
      /\ \A f \in Named(rule) : f \in Fields
  BY RuleFacts, LenProperties
<1>2. \A k \in DOMAIN rule.conditions : \A t \in rule.conditions[k] :
        t.neg \in BOOLEAN /\ t.field \in Named(rule)
  <2>1. \A k \in DOMAIN rule.conditions : \A t \in rule.conditions[k] : t \in Terms(rule)
    BY DEF Terms
  <2> QED BY <2>1, RuleFacts
<1>3. PICK c : Fills(rule, p, <<>>, c) /\ Satisfied(rule, p, c) BY <1>1, ChooseIs DEF Fillable
<1>4. c \in Seq(Nat) /\ Len(c) = n /\ \A k \in 1..n : Pick(p, rule.fields[k], c[k])
  BY <1>1, <1>3 DEF Fills
<1> DEFINE d == [k \in 1..n |-> IF c[k] = 0 /\ q.fields[rule.fields[k]] # <<>> THEN 1 ELSE c[k]]
<1>5. d \in Seq(Nat) /\ Len(d) = n
  <2>1. d \in [1..n -> Nat] BY <1>4
  <2> HIDE DEF d
  <2> QED BY <1>1, <2>1
<1>6. \A k \in 1..n : c[k] # 0 => d[k] = c[k] OBVIOUS
<1>7. \A f \in Fields : /\ DOMAIN p.fields[f] = 1..Len(p.fields[f]) /\ Len(p.fields[f]) \in Nat
                        /\ DOMAIN q.fields[f] = 1..Len(q.fields[f]) /\ Len(q.fields[f]) \in Nat
                        /\ q.fields[f] \in Seq(Range(q.fields[f]))
  BY SequenceFacts DEF IsPayload
<1>8. ASSUME NEW k \in 1..n PROVE Pick(q, rule.fields[k], d[k])
  <2> DEFINE f == rule.fields[k]
  <2>1. f \in Fields /\ Pick(p, f, c[k]) /\ c[k] \in Nat BY <1>1, <1>4
  <2>2. CASE q.fields[f] = <<>>
    <3>1. DOMAIN q.fields[f] = {} BY <2>2
    <3>2. c[k] \notin DOMAIN p.fields[f] BY <2>1, <3>1 DEF Extends
    <3>3. c[k] = 0 BY <2>1, <3>2 DEF Pick
    <3> QED BY <2>2, <3>3 DEF Pick
  <2>3. CASE q.fields[f] # <<>>
    <3>1. Len(q.fields[f]) # 0 BY <1>7, <2>1, <2>3
    <3>2. 1 \in DOMAIN q.fields[f] BY <1>7, <2>1, <3>1
    <3>3. CASE c[k] = 0 BY <2>3, <3>2, <3>3 DEF Pick
    <3>4. CASE c[k] # 0
      <4>1. c[k] \in DOMAIN p.fields[f] BY <2>1, <3>4 DEF Pick
      <4>2. c[k] \in DOMAIN q.fields[f] BY <2>1, <4>1 DEF Extends
      <4> QED BY <1>6, <2>3, <3>4, <4>2 DEF Pick
    <3> QED BY <3>3, <3>4
  <2> QED BY <2>2, <2>3
<1>9. ASSUME NEW k \in DOMAIN rule.conditions
      PROVE  \E t \in rule.conditions[k] : Meets(t, q.fields[t.field], d[Slot(rule, t.field)])
  <2>1. PICK t \in rule.conditions[k] : Meets(t, p.fields[t.field], c[Slot(rule, t.field)])
    BY <1>3 DEF Satisfied
  <2> DEFINE f == t.field
             i == c[Slot(rule, f)]
  <2>2. t.neg \in BOOLEAN /\ f \in Named(rule) /\ f \in Fields /\ Slot(rule, f) \in 1..n
    BY <1>1, <1>2
  <2>3. i # 0 /\ Asks(t, p.fields[f][i]) BY <2>1, <2>2, MeetsIs
  <2>4. Pick(p, f, i) BY <1>1, <1>4, <2>2
  <2>5. i \in DOMAIN p.fields[f] BY <2>3, <2>4 DEF Pick
  <2>6. q.fields[f][i] = p.fields[f][i] BY <2>2, <2>5 DEF Extends
  <2>7. d[Slot(rule, f)] = i BY <1>6, <2>2, <2>3
  <2> HIDE DEF d
  <2>8. Meets(t, q.fields[f], d[Slot(rule, f)]) BY <2>2, <2>3, <2>6, <2>7, MeetsIs
  <2> QED BY <2>8
<1>10. Fills(rule, q, <<>>, d)
  <2>1. Len(<<>>) = 0 /\ \A k \in 1..0 : FALSE OBVIOUS
  <2>2. \A k \in Len(<<>>) + 1..n : k \in 1..n BY <1>1, <2>1
  <2>3. \A k \in 1..Len(<<>>) : d[k] = <<>>[k] BY <2>1
  <2>4. \A k \in Len(<<>>) + 1..n : Pick(q, rule.fields[k], d[k]) BY <1>8, <2>2
  <2> HIDE DEF d
  <2> QED BY <1>5, <2>3, <2>4 DEF Fills
<1>11. Satisfied(rule, q, d) BY <1>9 DEF Satisfied
<1> QED BY <1>1, <1>10, <1>11, ChooseIs DEF Fillable

\* Saying more never hides a call: one more url, grant or entry in unreadable takes no
\* match away, for any rule, a not_ term or none.
THEOREM MoreNeverHidesHolds == Spec => MoreNeverHides
<1> DEFINE More == (written' = {} /\ \E f \in {"url", "network_grant", "unreadable"} : \E v \in Values[f] :
                      payloads' = <<SetField(payload, f, v)>>)
                   => (Matches(rule, payload) => Matches(rule, payload'))
<1>1. IInv /\ [Next]_vars => [More]_vars
  <2> SUFFICES ASSUME IInv, NEW f \in {"url", "network_grant", "unreadable"}, NEW v \in Values[f],
                      payloads' = <<SetField(payload, f, v)>>, Matches(rule, payload)
               PROVE  Matches(rule, payload')
    OBVIOUS
  <2>1. PICK q : q = SetField(payload, f, v) OBVIOUS
  <2>2. payload' = q BY <2>1, PayloadIsNext
  <2>3. IsPayload(payload) /\ asked \in DOMAIN RuleChoices BY DEF IInv, Sound
  <2>4. IsPayload(q) /\ Extends(payload, q) BY <2>1, <2>3, MoreExtends
  <2>5. rule.kind \in {"", payload.kind} /\ Choose(rule, payload) BY DEF Matches
  <2>6. Choose(rule, q) BY <2>3, <2>4, <2>5, ChooseMonotone
  <2>7. q.kind = payload.kind BY <2>4 DEF Extends
  <2> QED BY <2>2, <2>5, <2>6, <2>7 DEF Matches
<1> QED BY <1>1, Invariant, PTL DEF Spec, MoreNeverHides
=============================================================================
