---------------------------- MODULE Configuration ----------------------------
(***************************************************************************)
(* What the configuration files promise: jobs, task packs and rule sets    *)
(* change by whole operations (jobs.py, rules_taskpacks.py).  ConfigFiles  *)
(* implements this with two kinds of files, a lock and a rollback.         *)
(*                                                                         *)
(* A rule set has no file of its own: it is whatever the packs embed.  Its *)
(* own pack is one named rule-set-*; the packs of jobs, and packs users    *)
(* save, embed copies of it.  All rule sets are taken to have the same     *)
(* display name, so that the name of an own pack is given by its id.       *)
(***************************************************************************)
EXTENDS Naturals

CONSTANTS
  MaxJobs,   \* bound: job ids
  MaxRule,   \* bound: rule set ids; 1 is the built-in one, which no pack holds
  UserPacks, \* numbers of the packs that users create under names of their own
  Texts,     \* what a pack or a registry entry says
  MaxTorn    \* bound: operations of which only the pack is written

JobId == 1..MaxJobs
RuleId == 1..MaxRule
NoJob == 0

ASSUME ConfigurationAssumption ==
  /\ MaxJobs \in Nat /\ MaxRule \in Nat \ {0} /\ MaxTorn \in Nat
  /\ NoJob \notin Texts

JobPack(j) == <<"job", j>>
RulePack(r) == <<"rule", r>>
Name == {JobPack(j) : j \in JobId} \cup {RulePack(r) : r \in RuleId \ {1}}
        \cup {<<"user", u>> : u \in UserPacks}

\* The id that a pack's rule set carries, and all the rest.
Content == [rule: RuleId, text: Texts]
Absent == [rule |-> 0, text |-> NoJob]

\* workspace.json: each job's entry, and next_job_id.
Registry == [job: [JobId -> Texts \cup {NoJob}], next: 1..(MaxJobs + 1)]
\* The packs, and for each the packs whose updated_at is earlier.
Packs == [at: [Name -> Content \cup {Absent}], older: [Name -> SUBSET Name]]

NoPacks == [at |-> [n \in Name |-> Absent], older |-> [n \in Name |-> {}]]
NoJobs == [job |-> [j \in JobId |-> NoJob], next |-> 1]

VARIABLES registry, packs,
          torn   \* operations cut off between the pack and the registry

vars == <<registry, packs, torn>>

-----------------------------------------------------------------------------
Exists(p, n) == p.at[n] # Absent
Registered(w, j) == w.job[j] # NoJob

\* A pack that is written gets the latest updated_at (an operation takes the
\* time when it begins; the wait for the lock is neglected).
Saved(p, n, c) ==
  [at    |-> [p.at EXCEPT ![n] = c],
   older |-> [m \in Name |-> IF m = n THEN {k \in Name : Exists(p, k)} \ {n} ELSE p.older[m] \ {n}]]

Removed(p, n) ==
  [at    |-> [p.at EXCEPT ![n] = Absent],
   older |-> [m \in Name |-> IF m = n THEN {} ELSE p.older[m] \ {n}]]

Holders(p, r) == {n \in Name : p.at[n].rule = r}

\* The catalog goes through the packs from the latest to the earliest, and
\* each row replaces the one before.
InCatalog(p, r) == r = 1 \/ Holders(p, r) # {}
Row(p, r) == p.at[CHOOSE n \in Holders(p, r) : p.older[n] \cap Holders(p, r) = {}].text

NewRuleId(p) ==
  1 + CHOOSE r \in RuleId : InCatalog(p, r) /\ \A s \in RuleId : InCatalog(p, s) => s <= r

\* The packs named rule-set-* that hold rule set r, the latest first.
OwnPack(p, r) ==
  LET own == {n \in Holders(p, r) : n[1] = "rule"}
  IN {n \in own : \A m \in own \ {n} : m \in p.older[n]}

-----------------------------------------------------------------------------
(* The operations: the sets of their outcomes on a registry w and packs p.  *)
(* An operation that raises has none.                                       *)

Outcome == [registry: Registry, packs: Packs, both: BOOLEAN]

\* mutate_workspace writes the registry in any case; the operations on a
\* single pack write no more than it.
Both(w, p) == [registry |-> w, packs |-> p, both |-> TRUE]
PackOnly(w, p) == [registry |-> w, packs |-> p, both |-> FALSE]

\* The rule set is given in the request, or by an id that is looked up in the
\* catalog under the same lock; either way the pack gets a copy.
CreateJob(w, p, c) ==
  {Both([w EXCEPT !.job[j] = c.text, !.next = j + 1], Saved(p, JobPack(j), c)) : j \in {w.next} \cap JobId}

UpdateJob(w, p, c) ==
  {Both([w EXCEPT !.job[j] = c.text], Saved(p, JobPack(j), c)) :
     j \in {i \in JobId : Registered(w, i) /\ Exists(p, JobPack(i))}}

\* Toggle, delete, restore and reschedule write the registry alone.
EditJob(w, p, t) ==
  {Both([w EXCEPT !.job[j] = t], p) : j \in {i \in JobId : Registered(w, i)}}

\* The pack stays.
PurgeJob(w, p) ==
  {Both([w EXCEPT !.job[j] = NoJob], p) : j \in {i \in JobId : Registered(w, i)}}

CreatePack(w, p, c) == {PackOnly(w, Saved(p, n, c)) : n \in {m \in Name : ~Exists(p, m)}}
UpdatePack(w, p, c) == {PackOnly(w, Saved(p, n, c)) : n \in {m \in Name : Exists(p, m)}}

\* (mutant of Referenced) only the existence of the pack is checked
ReferencedNever(w, n) == FALSE

Referenced(w, n) == \E j \in JobId : Registered(w, j) /\ n = JobPack(j)

DeletePack(w, p) ==
  {Both(w, Removed(p, n)) : n \in {m \in Name : Exists(p, m) /\ ~Referenced(w, m)}}

CreateRuleSet(w, p, t) ==
  {Both(w, Saved(p, RulePack(r), [rule |-> r, text |-> t])) :
     r \in {s \in RuleId \ {1} : s = NewRuleId(p) /\ ~Exists(p, RulePack(s))}}

UpdateRuleSet(w, p, r, t) ==
  IF r = 1 THEN {} ELSE {Both(w, Saved(p, n, [rule |-> r, text |-> t])) : n \in OwnPack(p, r)}

\* The rule set that a job uses is the one its pack holds.
InUse(w, p, r) == \E j \in JobId : Registered(w, j) /\ p.at[JobPack(j)].rule = r

DeleteRuleSet(w, p) ==
  {Both(w, Removed(p, n)) :
     n \in UNION {OwnPack(p, r) : r \in {s \in RuleId \ {1} : InCatalog(p, s) /\ ~InUse(w, p, s)}}}

Outcomes(w, p) ==
  (UNION {CreateJob(w, p, c) \cup UpdateJob(w, p, c) \cup CreatePack(w, p, c) \cup UpdatePack(w, p, c) :
            c \in Content})
  \cup (UNION {EditJob(w, p, t) \cup CreateRuleSet(w, p, t) : t \in Texts})
  \cup (UNION {UpdateRuleSet(w, p, r, t) : r \in RuleId, t \in Texts})
  \cup PurgeJob(w, p) \cup DeletePack(w, p) \cup DeleteRuleSet(w, p)

-----------------------------------------------------------------------------
TypeOK == registry \in Registry /\ packs \in Packs /\ torn \in 0..MaxTorn

Init == registry = NoJobs /\ packs = NoPacks /\ torn = 0

Operate ==
  /\ \E o \in Outcomes(registry, packs) : registry' = o.registry /\ packs' = o.packs
  /\ UNCHANGED torn

\* A process that dies in the middle has written the pack only.
Tear ==
  /\ torn < MaxTorn /\ torn' = torn + 1
  /\ \E o \in Outcomes(registry, packs) : o.both /\ packs' = o.packs
  /\ UNCHANGED registry

Next == Operate \/ Tear
Spec == Init /\ [][Next]_vars

-----------------------------------------------------------------------------
\* No registered job is without its pack, which holds what it searches for:
\* create_job writes the pack first, delete_task_pack refuses a pack in use.
JobsHavePacks == \A j \in JobId : Registered(registry, j) => Exists(packs, JobPack(j))

(* A claim of a test that the code does not keep.                           *)

\* What update_rule_set has written is what get_rule_set and list_rule_sets
\* show from then on.
UpdateIsVisible ==
  [][\A r \in RuleId, t \in Texts :
       (\E o \in UpdateRuleSet(registry, packs, r, t) : packs' = o.packs) => Row(packs', r) = t]_vars

=============================================================================
