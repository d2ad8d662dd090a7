------------------------------ MODULE Reading ------------------------------
(***************************************************************************)
(* What rules are asked of, held against what a call does: a command line  *)
(* as the shell reader gives it and as bash runs it, and a whole call of a *)
(* harness as its Adapter normalizes it and as the harness carries it out. *)
(* The fields of Matching are written into the same payloads, before.      *)
(***************************************************************************)
EXTENDS Matching, NormalizeOmp

CONSTANTS Lines,   \* command lines a payload is given alone
          InBash,  \* what bash may do with a command line
          Calls,   \* the calls of the harnesses, as they come over the wire
          ActsOf   \* what a harness does with a call

ASSUME BashAssumption ==
  \A l \in Values["command"] :
    /\ \A do \in DOMAIN InBash[l] : \A x \in InBash[l][do] : x.handed \in BOOLEAN
    /\ \A o \in InBash[l].opens : o.write \in BOOLEAN
ASSUME ActsAssumption == \A c \in Calls : \A act \in ActsOf[c] : act.kind \in STRING

VARIABLE call  \* the call the payloads were read from; None where they are written one by one

readVars == <<vars, call>>

ReadInit == Init /\ call = None

\* A shell call that carries a command line and no more; of these no more is written.
CommandAlone == \E l \in Lines :
  /\ payload = [Empty EXCEPT !.kind = "shell"] /\ ~lost /\ calls = 0
  /\ calls' = MaxCalls /\ payloads' = <<SetField(payload, "command", l)>>
  /\ UNCHANGED <<asked, lost, written, hurt, call>>

\* Normalize: a whole call is read; the event's own handling of it follows in Hook.
Normalize == \E c \in Calls :
  /\ payload = [Empty EXCEPT !.kind = "other"] /\ ~lost /\ calls = 0 /\ asked = 1
  /\ calls' = MaxCalls /\ call' = c
  /\ payloads' = Normalized(c.adapter, c.event, c.envelope)
  /\ UNCHANGED <<asked, lost, written, hurt>>

WriteFields == Next /\ UNCHANGED call

ReadNext == CommandAlone \/ Normalize \/ WriteFields

ReadSpec == ReadInit /\ [][ReadNext]_readVars

-----------------------------------------------------------------------------
TheLine == payload.fields["command"][1].spellings[1]
Carries == payload.kind = "shell" /\ Has(payload, "command") /\ ~hurt

\* What bash does with a line, but for what a shell reads from input that was handed on
\* to it.  The reader follows the line's input no further than a command, its Wrappers
\* and its groups: nested code starts with none (code, with nothing fed), and so does a
\* substitution of a simple command (feed).  So it leaves git | sh -c sh undeclared,
\* though docs/spec.md, section 2, says of stdin piped into a listed shell that it is
\* declared.
NotHandedOn(done) == {x \in done : ~x.handed}

\* An allowlist vouches for what it lets by.  Where nothing is declared unreadable,
\* every command that bash may run on the line, behind whatever Wrappers, quotes and
\* nested shells, is a Candidate of its own; and where a lone not_ term on command does
\* not fire, there is a command, and each has a Spelling on the list.  A line that runs
\* code it does not hold is declared.  Of what a shell reads from input handed on to it
\* (NotHandedOn) none of this is claimed.
AllowlistVouches ==
  Carries /\ ~Declared("command") =>
    LET read == {c \in {payload.fields["command"][i] : i \in DOMAIN payload.fields["command"]} : ~c.whole}
        on(list, c) == \E j \in DOMAIN c.spellings : c.spellings[j] \in list
        lists == {t.hits : t \in {u \in UNION {rule.conditions[i] : i \in DOMAIN rule.conditions} :
                                    u.neg /\ u.field = "command" /\ rule.conditions = <<{u}>>
                                    /\ rule.kind \in {"", "shell"} /\ ~Matches(rule, payload)}} IN
    /\ NotHandedOn(InBash[TheLine].unknown) = {}
    /\ \A run \in NotHandedOn(InBash[TheLine].runs) :
         \E c \in read : on({run.argv}, c) /\ \A list \in lists : on(list, c)
    /\ lists # {} => \E c \in read : c.spellings # <<>>

\* Every file bash may open for the line, to read it or to write it, is a payload of its
\* own kind that rules are asked of, or is declared as one that could not be read; those
\* opened by code a shell reads from input handed on to it excepted (NotHandedOn).
FilesVouched ==
  Carries /\ ~Declared("command") =>
    \A o \in NotHandedOn(InBash[TheLine].opens) : \E i \in DOMAIN Payloads :
      LET p == Payloads[i]
          paths == {p.fields["path"][j].spellings[1] : j \in DOMAIN p.fields["path"]} IN
      IF Holds(p.fields["unreadable"], Spelled("path")) THEN p.kind # "shell" /\ o.path \in paths
      ELSE p.kind = (IF o.write THEN "file_edit" ELSE "file_read") /\ o.path \in DOMAIN Clean /\ Clean[o.path] \in paths

DeclaredIn(p, f) == Holds(p.fields["unreadable"], Spelled(f))
\* A payload tells of an act: each value it has, or that the field could not be read.
Tells(p, act) ==
  /\ p.kind = act.kind
  /\ \A f \in DOMAIN act.says : \A v \in act.says[f] :
       DeclaredIn(p, f) \/ (v # None /\ \E i \in DOMAIN p.fields[f] : Holds(p.fields[f][i].spellings, v))
\* It tells of that act alone: nothing that it says there is from another one, and what
\* it declares is unreadable there.
OnlyTells(p, act) ==
  /\ p.kind = act.kind
  /\ \A f \in DOMAIN act.says \ {"command"} : DeclaredIn(p, f) => None \in act.says[f]
  /\ \A f \in (DOMAIN act.says \cap Fields) \ {"command"} : \A i \in DOMAIN p.fields[f] :
       \E j \in DOMAIN p.fields[f][i].spellings : p.fields[f][i].spellings[j] \in act.says[f]

\* A continuation told as one, or a stop that may be one for all that could be read of it.
MayNotContinue(c) ==
  /\ c.event \in {"Stop", "SubagentStop"}
  /\ ~Decoded(c.envelope) \/ At(c.envelope.of, "stop_hook_active") = Bool(TRUE)

\* Whatever shape a harness gives a call, each thing the call does is told by a payload
\* of its own, in every field or as one that could not be read; and no payload joins
\* what two acts do, a path from one and a text from another, tells of something the
\* call does not do, or declares what it could read.  A stop counts as continued, and no
\* rule may continue it again, exactly where the harness said so or could not be read.
CallTold ==
  call # None =>
    /\ \A act \in ActsOf[call] : \E i \in DOMAIN payloads : Tells(payloads[i], act)
    /\ ActsOf[call] # {} => \A i \in DOMAIN payloads : \E act \in ActsOf[call] : OnlyTells(payloads[i], act)
    /\ ActsOf[call] # {} => ((\E i \in DOMAIN payloads : payloads[i].continued) <=> MayNotContinue(call))
=============================================================================
