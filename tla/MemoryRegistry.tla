--------------------------- MODULE MemoryRegistry ---------------------------
(***************************************************************************)
(* Memory regions shared between processes (ipmb/src/platform/mod.rs) and  *)
(* the registry of one process that reuses them (memory_registry.rs).      *)
(*                                                                         *)
(* Every region starts with a counter, in memory all the processes map.    *)
(* Whatever keeps a region alive is a `hold`: a MemoryRegion in a process, *)
(* a message that carries one, and for a moment both.  The registry has a  *)
(* MemoryRegion of every region it remembers, which counts as well, and    *)
(* hands a region out again when the counter says that it has the only one.*)
(***************************************************************************)
EXTENDS Naturals, FiniteSets

CONSTANTS
    Regions,        \* shared memory objects
    Procs,          \* processes
    Owner,          \* the process with the registry
    Holds,          \* bound: names for what may hold regions at one time
    Sizes, Tags,    \* arguments of alloc
    Lifetime,       \* five seconds, in ticks
    MaxAllocs       \* bound: how often alloc is called

ASSUME OwnerAssumption == Owner \in Procs
ASSUME HoldsAssumption == IsFiniteSet(Holds)
ASSUME NumbersAssumption ==
    /\ Sizes \subseteq Nat
    /\ Lifetime \in Nat /\ MaxAllocs \in Nat

VARIABLES
    rc,             \* the counter in the header of every region
    hold,           \* what every hold is
    entries,        \* regions the registry remembers
    info,           \* size, tag, age and free callback of its entries
    allocs,         \* number of successful calls of alloc
    tenant,         \* the call that handed a region out last
    accepted,       \* calls of alloc_with_free whose callback the registry took
    called          \* those whose callback was called

registryVars == <<entries, info, allocs, tenant, accepted, called>>
vars == <<rc, hold, registryVars>>

\* A hold nobody has.
Nothing == [step |-> "none"]

\* held: a MemoryRegion.  lent: one in a message that is being sent.
\* sending: counted for a message before it is sent.  flight: in a message that
\* was sent.  claimed: in a message that was received, and mapped already.
\* lost: counted, and gone without having been taken off.
Steps == {"held", "lent", "sending", "flight", "claimed", "lost"}

Hold == [step : Steps, region : Regions, gen : Nat, at : Procs]

\* An entry without callback has guard 0.
Info == [size : Nat, tag : Tags, age : Nat, guard : Nat]

TypeOK ==
    /\ rc \in [Regions -> Nat]
    /\ hold \in [Holds -> Hold \cup {Nothing}]
    /\ entries \subseteq Regions
    /\ info \in [Regions -> Info]
    /\ allocs \in Nat
    /\ tenant \in [Regions -> Nat]
    /\ accepted \subseteq Nat /\ called \subseteq Nat

Init ==
    /\ rc = [r \in Regions |-> 0]
    /\ hold = [h \in Holds |-> Nothing]
    /\ entries = {}
    /\ info \in [Regions -> {[size |-> 0, tag |-> t, age |-> 0, guard |-> 0] : t \in Tags}]
    /\ \A r, s \in Regions : info[r] = info[s]
    /\ allocs = 0
    /\ tenant = [r \in Regions |-> 0]
    /\ accepted = {} /\ called = {}

Live(h) == hold[h].step # "none"

\* Everything but the registry that counts for a region.
HoldsOf(r) == {h \in Holds : Live(h) /\ hold[h].region = r}

-----------------------------------------------------------------------------
(* MemoryRegion *)

Up(r) == [rc EXCEPT ![r] = @ + 1]
Down(r) == [rc EXCEPT ![r] = @ - 1]

Is(h, step) == hold[h].step = step

\* A hold of the same region, from the same alloc.
As(h, step, p) ==
    [step |-> step, region |-> hold[h].region, gen |-> hold[h].gen, at |-> p]
Here(h, step) == As(h, step, hold[h].at)

\* clone
Clone(h, new) ==
    /\ Is(h, "held") /\ ~Live(new)
    /\ hold' = [hold EXCEPT ![new] = Here(h, "held")]
    /\ rc' = Up(hold[h].region)
    /\ UNCHANGED registryVars

\* Drop
Drop(h) ==
    /\ Is(h, "held")
    /\ hold' = [hold EXCEPT ![h] = Nothing]
    /\ rc' = Down(hold[h].region)
    /\ UNCHANGED registryVars

\* Mutant: the message is not counted.
LendUncounted(h, new) ==
    /\ Is(h, "held") /\ ~Live(new)
    /\ hold' = [hold EXCEPT ![h] = Here(h, "lent"), ![new] = Here(h, "sending")]
    /\ UNCHANGED <<rc, registryVars>>

\* send counts a region for the receiver before the message leaves.
Lend(h, new) ==
    /\ Is(h, "held") /\ ~Live(new)
    /\ hold' = [hold EXCEPT ![h] = Here(h, "lent"), ![new] = Here(h, "sending")]
    /\ rc' = Up(hold[h].region)
    /\ UNCHANGED registryVars

\* The message of a lent region is with the kernel.  The sender still has it:
\* the controller may send it to others, send drops it.
Sent(h, new) ==
    /\ Is(h, "lent") /\ Is(new, "sending")
    /\ hold[h].region = hold[new].region /\ hold[h].at = hold[new].at
    /\ hold' = [hold EXCEPT ![h] = Here(h, "held"), ![new] = Here(new, "flight")]
    /\ UNCHANGED <<rc, registryVars>>

\* The receiver is gone.
NotSent(h, new) ==
    /\ Is(h, "lent") /\ Is(new, "sending")
    /\ hold[h].region = hold[new].region /\ hold[h].at = hold[new].at
    /\ hold' = [hold EXCEPT ![h] = Here(h, "held"), ![new] = Nothing]
    /\ rc' = Down(hold[h].region)
    /\ UNCHANGED registryVars

\* A process received the message: from_object maps the region and counts it ...
Receive(h, new, p) ==
    /\ Is(h, "flight") /\ ~Live(new)
    /\ hold' = [hold EXCEPT ![h] = As(h, "claimed", p), ![new] = As(h, "held", p)]
    /\ rc' = Up(hold[h].region)
    /\ UNCHANGED registryVars

\* Mutant: what was counted for the message stays.
SettleForgotten(h) ==
    /\ Is(h, "claimed")
    /\ hold' = [hold EXCEPT ![h] = Nothing]
    /\ UNCHANGED <<rc, registryVars>>

\* ... and what was counted for the message is taken off.
Settle(h) ==
    /\ Is(h, "claimed")
    /\ hold' = [hold EXCEPT ![h] = Nothing]
    /\ rc' = Down(hold[h].region)
    /\ UNCHANGED registryVars

\* The channel goes away with the message unread, or the message does not get
\* through it whole.
Lose(h) ==
    /\ Is(h, "flight")
    /\ hold' = [hold EXCEPT ![h] = Here(h, "lost")]
    /\ UNCHANGED <<rc, registryVars>>

Has(p, h) == Live(h) /\ hold[h].step \notin {"flight", "lost"} /\ hold[h].at = p

\* A process is killed; nothing it has is dropped.
Crash(p) ==
    /\ \E h \in Holds : Has(p, h)
    /\ hold' = [h \in Holds |-> IF Has(p, h) THEN Here(h, "lost") ELSE hold[h]]
    /\ UNCHANGED <<rc, registryVars>>

-----------------------------------------------------------------------------
(* MemoryRegistry::maintain_inner, over the entries and the counters it meets *)

\* Mutant: an entry only goes after its lifetime.
OldLater(i) == {r \in entries : i[r].age > Lifetime}

Old(i) == {r \in entries : i[r].age >= Lifetime}

\* Mutant: a region with one hold besides the registry's passes for unused.
UnusedByOne(counter) == {r \in entries : counter[r] <= 2}

Unused(counter) == {r \in entries : counter[r] = 1}

\* Entries go when they are old, whoever has the region.  The callback of an
\* entry is called when the entry goes, and when the region is unused.
Maintain(i, counter, before) ==
    /\ entries' = entries \ Old(i)
    /\ rc' = [r \in Regions |-> IF r \in Old(i) THEN counter[r] - 1 ELSE counter[r]]
    /\ info' = [r \in Regions |->
                  IF r \in Old(i) \cup Unused(counter) THEN [i[r] EXCEPT !.guard = 0] ELSE i[r]]
    /\ called' = before \cup ({i[r].guard : r \in Old(i) \cup Unused(counter)} \ {0})

\* maintain
CallMaintain ==
    /\ Maintain(info, rc, called)
    /\ UNCHANGED <<hold, allocs, tenant, accepted>>

-----------------------------------------------------------------------------
(* MemoryRegistry::alloc_inner *)

\* The range of the map alloc looks in, and the entries there that will do.
Fits(r, min) == min <= info[r].size /\ info[r].size < 2 * min

Reusable(min, tag) ==
    {r \in entries : Fits(r, min) /\ rc[r] = 1 /\ info[r].tag = tag}

Guard(free) == IF free THEN allocs + 1 ELSE 0
Accept(free) == accepted' = IF free THEN accepted \cup {allocs + 1} ELSE accepted
Handle(r) == [step |-> "held", region |-> r, gen |-> allocs + 1, at |-> Owner]

\* Mutant: the old callback is thrown away.
ReplacedSilently(r) == {}

\* Replacing the guard of an entry calls the callback of the old one.
Replaced(r) == {info[r].guard} \ {0}

\* One of those that will do is handed out again; which one depends on the order
\* of the map and on counters that go down meanwhile.
Reuse(min, tag, free, new) ==
    /\ allocs < MaxAllocs /\ ~Live(new)
    /\ \E r \in Reusable(min, tag) :
          /\ hold' = [hold EXCEPT ![new] = Handle(r)]
          /\ tenant' = [tenant EXCEPT ![r] = allocs + 1]
          /\ Maintain([info EXCEPT ![r].age = 0, ![r].guard = Guard(free)],
                      Up(r), called \cup Replaced(r))
    /\ allocs' = allocs + 1
    /\ Accept(free)

\* The handle of the region cannot be duplicated: alloc returns None before it
\* has replaced the callback, and the new one is never called.
ReuseFails(min, tag) ==
    /\ \E r \in Reusable(min, tag) : info' = [info EXCEPT ![r].age = 0]
    /\ UNCHANGED <<rc, hold, entries, allocs, tenant, accepted, called>>

Fresh == {r \in Regions : r \notin entries /\ HoldsOf(r) = {}}

\* No entry will do: a new region, with one MemoryRegion for the caller and one
\* for the registry, after maintain_inner.
AllocNew(min, tag, free, new) ==
    /\ allocs < MaxAllocs /\ ~Live(new)
    /\ Reusable(min, tag) = {}
    /\ \E r \in Fresh :
          /\ hold' = [hold EXCEPT ![new] = Handle(r)]
          /\ tenant' = [tenant EXCEPT ![r] = allocs + 1]
          /\ entries' = (entries \ Old(info)) \cup {r}
          /\ rc' = [s \in Regions |->
                      IF s = r THEN 2 ELSE IF s \in Old(info) THEN rc[s] - 1 ELSE rc[s]]
          /\ info' = [s \in Regions |->
                        IF s = r
                        THEN [size |-> min, tag |-> tag, age |-> 0, guard |-> Guard(free)]
                        ELSE IF s \in Old(info) \cup Unused(rc)
                        THEN [info[s] EXCEPT !.guard = 0] ELSE info[s]]
    /\ called' = called \cup ({info[s].guard : s \in Old(info) \cup Unused(rc)} \ {0})
    /\ allocs' = allocs + 1
    /\ Accept(free)

\* There is no memory: None, and the callback is never called.
AllocFails(min, tag) ==
    /\ Reusable(min, tag) = {}
    /\ Maintain(info, rc, called)
    /\ UNCHANGED <<hold, allocs, tenant, accepted>>

Tick ==
    /\ \E r \in entries : info[r].age < Lifetime
    /\ info' = [r \in Regions |->
                  IF r \in entries /\ info[r].age < Lifetime
                  THEN [info[r] EXCEPT !.age = @ + 1] ELSE info[r]]
    /\ UNCHANGED <<rc, hold, entries, allocs, tenant, accepted, called>>

-----------------------------------------------------------------------------
Sharing ==
    \/ \E h, new \in Holds :
          \/ Clone(h, new) \/ Lend(h, new) \/ Sent(h, new) \/ NotSent(h, new)
          \/ \E p \in Procs : Receive(h, new, p)
    \/ \E h \in Holds : Drop(h) \/ Settle(h) \/ Lose(h)
    \/ \E p \in Procs \ {Owner} : Crash(p)

Alloc ==
    \E min \in Sizes, tag \in Tags :
        \/ \E free \in BOOLEAN, new \in Holds :
              Reuse(min, tag, free, new) \/ AllocNew(min, tag, free, new)
        \/ ReuseFails(min, tag) \/ AllocFails(min, tag)

Next == Sharing \/ Alloc \/ CallMaintain \/ Tick

Spec == Init /\ [][Next]_vars

\* The owner calls maintain from time to time.
FairSpec == Spec /\ WF_vars(Tick) /\ WF_vars(CallMaintain)

-----------------------------------------------------------------------------
(* Properties *)

\* A counter is never short of a hold, wherever the steps of senders, receivers
\* and dying processes fall: it is exactly the holds, the lost ones among them,
\* and the registry's own.
RefCountExact ==
    \A r \in Regions :
        rc[r] = Cardinality(HoldsOf(r)) + (IF r \in entries THEN 1 ELSE 0)

\* What a process writes into a region it got from one alloc is never seen
\* through a region of another alloc: everything that still holds a region goes
\* back to the call that handed it out last.
OneTenant ==
    \A h \in Holds : Live(h) => hold[h].gen = tenant[hold[h].region]

\* A callback the registry took is called once: it waits in an entry or was
\* called, and never both, and no two entries have it.
FreeAccounted ==
    /\ accepted = called \cup ({info[r].guard : r \in entries} \ {0})
    /\ \A r \in entries : info[r].guard \notin called
    /\ \A r, s \in entries : info[r].guard = info[s].guard => r = s \/ info[r].guard = 0

\* While the registry remembers a region, its callback is not called before
\* everybody is done with it.
FreeWhenDone ==
    \A h \in Holds : Live(h) /\ hold[h].region \in entries => hold[h].gen \notin called

InUse(h) == Live(h) /\ hold[h].step # "lost"

\* CHANGELOG.md: "free function will be called when region became free".
FreeOnlyWhenFree == \A h \in Holds : InUse(h) => hold[h].gen \notin called

\* Every callback the registry took is called in the end, even when a process
\* died with the region and its counter never comes down.
FreeCalled ==
    \A n \in 1 .. MaxAllocs : n \in accepted ~> n \in called
=============================================================================
