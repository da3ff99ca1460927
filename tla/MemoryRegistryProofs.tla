------------------------ MODULE MemoryRegistryProofs ------------------------
(***************************************************************************)
(* The counters of shared memory regions, for every number of regions,     *)
(* processes and holds: they are exact at every step, and so the registry  *)
(* never hands out a region that anybody else still has.                   *)
(***************************************************************************)
EXTENDS MemoryRegistry, FiniteSetTheorems, TLAPS

\* What is live is a proper hold.
LEMMA LiveIsHold ==
    ASSUME TypeOK, NEW h \in Holds, Live(h)
    PROVE  hold[h] \in Hold
BY DEF TypeOK, Live, Nothing

\* There are finitely many holds of a region, now and after the step.
LEMMA HoldsOfFinite ==
    ASSUME NEW r
    PROVE  /\ IsFiniteSet(HoldsOf(r)) /\ Cardinality(HoldsOf(r)) \in Nat
           /\ IsFiniteSet(HoldsOf(r)') /\ Cardinality(HoldsOf(r)') \in Nat
<1>1. HoldsOf(r) \in SUBSET Holds /\ HoldsOf(r)' \in SUBSET Holds
    BY DEF HoldsOf
<1>2. IsFiniteSet(HoldsOf(r)) /\ IsFiniteSet(HoldsOf(r)')
    BY <1>1, HoldsAssumption, FS_Subset
<1> QED BY <1>2, FS_CardinalityType

Counters == rc \in [Regions -> Nat] /\ RefCountExact

\* A step that adds one hold and counts it keeps the counters exact.
LEMMA Added ==
    ASSUME Counters, NEW q \in Regions, NEW new,
           new \notin HoldsOf(q), HoldsOf(q)' = HoldsOf(q) \cup {new},
           \A r \in Regions \ {q} : HoldsOf(r)' = HoldsOf(r),
           rc' = Up(q), entries' = entries
    PROVE  Counters'
<1>1. Cardinality(HoldsOf(q)') = Cardinality(HoldsOf(q)) + 1
    BY HoldsOfFinite, FS_AddElement
<1>2. rc[q] + 1 \in Nat
    BY DEF Counters
<1>3. rc' \in [Regions -> Nat]
    BY <1>2 DEF Counters, Up
<1>4. rc'[q] = rc[q] + 1 /\ \A r \in Regions \ {q} : rc'[r] = rc[r]
    BY DEF Counters, Up
<1>5. rc'[q] = Cardinality(HoldsOf(q)') + (IF q \in entries' THEN 1 ELSE 0)
    BY <1>1, <1>4, HoldsOfFinite DEF Counters, RefCountExact
<1>6. \A r \in Regions \ {q} :
          rc'[r] = Cardinality(HoldsOf(r)') + (IF r \in entries' THEN 1 ELSE 0)
    BY <1>4 DEF Counters, RefCountExact
<1> QED BY <1>3, <1>5, <1>6 DEF Counters, RefCountExact

\* A step that removes one hold and takes it off keeps the counters exact.
LEMMA Removed ==
    ASSUME Counters, NEW q \in Regions, NEW old,
           old \in HoldsOf(q), HoldsOf(q)' = HoldsOf(q) \ {old},
           \A r \in Regions \ {q} : HoldsOf(r)' = HoldsOf(r),
           rc' = Down(q), entries' = entries
    PROVE  Counters'
<1>1. Cardinality(HoldsOf(q)') = Cardinality(HoldsOf(q)) - 1
    BY HoldsOfFinite, FS_RemoveElement
<1>2. Cardinality(HoldsOf(q)') \in Nat
    BY HoldsOfFinite
<1>3. rc[q] - 1 \in Nat
    BY <1>1, <1>2, HoldsOfFinite DEF Counters, RefCountExact
<1>4. rc' \in [Regions -> Nat]
    BY <1>3 DEF Counters, Down
<1>5. rc'[q] = rc[q] - 1 /\ \A r \in Regions \ {q} : rc'[r] = rc[r]
    BY DEF Counters, Down
<1>6. rc'[q] = Cardinality(HoldsOf(q)') + (IF q \in entries' THEN 1 ELSE 0)
    BY <1>1, <1>5, HoldsOfFinite DEF Counters, RefCountExact
<1>7. \A r \in Regions \ {q} :
          rc'[r] = Cardinality(HoldsOf(r)') + (IF r \in entries' THEN 1 ELSE 0)
    BY <1>5 DEF Counters, RefCountExact
<1> QED BY <1>4, <1>6, <1>7 DEF Counters, RefCountExact

\* A step that only moves holds keeps the counters exact.
LEMMA Moved ==
    ASSUME Counters, \A r \in Regions : HoldsOf(r)' = HoldsOf(r),
           rc' = rc, entries' = entries
    PROVE  Counters'
BY DEF Counters, RefCountExact

\* maintain_inner takes its own share of every region it forgets off.
LEMMA Swept ==
    ASSUME NEW i, NEW counter \in [Regions -> Nat], NEW b, Maintain(i, counter, b),
           \A r \in Regions :
              counter[r] = Cardinality(HoldsOf(r)') + (IF r \in entries THEN 1 ELSE 0)
    PROVE  Counters'
<1>1. \A r \in Regions : Cardinality(HoldsOf(r)') \in Nat
    BY HoldsOfFinite
<1>2. \A r \in Regions :
          rc'[r] = Cardinality(HoldsOf(r)') + (IF r \in entries' THEN 1 ELSE 0)
    BY <1>1 DEF Maintain, Old
<1>3. rc' \in [Regions -> Nat]
    <2>1. \A r \in Regions : rc'[r] \in Nat
        BY <1>1, <1>2
    <2> QED BY <2>1 DEF Maintain
<1> QED BY <1>2, <1>3 DEF Counters, RefCountExact

\* Nobody but the registry has a region it would hand out again.
LEMMA ReusableIsFree ==
    ASSUME Counters, NEW min, NEW tag, NEW r \in Reusable(min, tag), r \in Regions
    PROVE  HoldsOf(r) = {}
<1>1. Cardinality(HoldsOf(r)) = 0
    BY HoldsOfFinite DEF Counters, RefCountExact, Reusable
<1> QED BY <1>1, HoldsOfFinite, FS_EmptySet

-----------------------------------------------------------------------------
\* Callbacks are numbered by the calls of alloc_with_free that brought them: the
\* one that waits in an entry is that of its last tenant.
Guards ==
    /\ \A r \in Regions : tenant[r] <= allocs
    /\ \A r, s \in Regions : tenant[r] = tenant[s] => r = s \/ tenant[r] = 0
    /\ \A r \in entries : info[r].guard = 0 \/ info[r].guard = tenant[r]
    /\ \A n \in called : 0 < n /\ n <= allocs

Inv == TypeOK /\ RefCountExact /\ OneTenant /\ Guards /\ FreeWhenDone

LEMMA InitInv == Init => Inv
<1> SUFFICES ASSUME Init PROVE Inv
    OBVIOUS
<1>1. \A r \in Regions : HoldsOf(r) = {}
    BY DEF Init, HoldsOf, Live, Nothing
<1>2. RefCountExact
    BY <1>1, FS_EmptySet DEF RefCountExact, Init
<1>3. info \in [Regions -> Info]
    <2>1. \A t \in Tags : [size |-> 0, tag |-> t, age |-> 0, guard |-> 0] \in Info
        BY DEF Info
    <2> QED BY <2>1 DEF Init
<1>4. \A h \in Holds : ~Live(h)
    BY DEF Init, Live, Nothing
<1> QED BY <1>2, <1>3, <1>4 DEF Inv, TypeOK, OneTenant, Guards, FreeWhenDone, Init

\* The type of what maintain_inner changes.
LEMMA MaintainType ==
    ASSUME TypeOK, NEW i \in [Regions -> Info], NEW counter, NEW b \in SUBSET Nat,
           Maintain(i, counter, b)
    PROVE  /\ entries' \subseteq Regions
           /\ info' \in [Regions -> Info]
           /\ called' \subseteq Nat
<1>1. \A r \in Regions : [i[r] EXCEPT !.guard = 0] \in Info
    BY DEF Info
<1>2. info' \in [Regions -> Info]
    BY <1>1 DEF Maintain
<1>3. \A r \in Regions : i[r].guard \in Nat
    BY DEF Info
<1>4. Old(i) \subseteq Regions /\ Unused(counter) \subseteq Regions
    BY DEF Old, Unused, TypeOK
<1> QED BY <1>2, <1>3, <1>4 DEF Maintain, TypeOK

\* A hold that stays what it is, but for who has it and how.
Kept(g) ==
    /\ Live(g)' <=> Live(g)
    /\ Live(g) => hold'[g].region = hold[g].region /\ hold'[g].gen = hold[g].gen

\* Copying a hold and counting the copy: clone, the start of send, from_object.
LEMMA CopyInv ==
    ASSUME Inv, NEW h \in Holds, NEW new \in Holds, Live(h), ~Live(new),
           hold' \in [Holds -> Hold \cup {Nothing}],
           \A g \in Holds \ {new} : Kept(g),
           Live(new)', hold'[new].region = hold[h].region, hold'[new].gen = hold[h].gen,
           rc' = Up(hold[h].region), UNCHANGED registryVars
    PROVE  Inv'
<1> USE DEF Inv
<1>0. hold[h].region \in Regions
    BY LiveIsHold DEF Hold
<1>q. PICK q \in Regions : q = hold[h].region
    BY <1>0
<1>1. Counters
    BY DEF Counters, TypeOK
<1>2. new \notin HoldsOf(q) /\ HoldsOf(q)' = HoldsOf(q) \cup {new}
    BY <1>q DEF HoldsOf, Kept
<1>3. \A r \in Regions \ {q} : HoldsOf(r)' = HoldsOf(r)
    BY <1>q DEF HoldsOf, Kept
<1>4. rc' = Up(q) /\ entries' = entries /\ tenant' = tenant
    BY <1>q DEF registryVars
<1>5. Counters'
    BY <1>1, <1>2, <1>3, <1>4, Added
<1>6. OneTenant'
    <2> SUFFICES ASSUME NEW g \in Holds, Live(g)' PROVE hold'[g].gen = tenant[hold'[g].region]
        BY <1>4 DEF OneTenant
    <2> QED BY DEF OneTenant, Kept
<1>7. Guards'
    BY DEF Guards, registryVars
<1>8. FreeWhenDone'
    <2> SUFFICES ASSUME NEW g \in Holds, Live(g)', hold'[g].region \in entries
                 PROVE hold'[g].gen \notin called
        BY DEF FreeWhenDone, registryVars
    <2> QED BY DEF FreeWhenDone, Kept
<1> QED BY <1>5, <1>6, <1>7, <1>8 DEF Counters, TypeOK, registryVars

\* Giving a hold up and taking it off: Drop, a failed send, the end of receiving.
LEMMA GiveUpInv ==
    ASSUME Inv, NEW h \in Holds, Live(h), ~Live(h)',
           hold' \in [Holds -> Hold \cup {Nothing}],
           \A g \in Holds \ {h} : Kept(g),
           rc' = Down(hold[h].region), UNCHANGED registryVars
    PROVE  Inv'
<1> USE DEF Inv
<1>0. hold[h].region \in Regions
    BY LiveIsHold DEF Hold
<1>q. PICK q \in Regions : q = hold[h].region
    BY <1>0
<1>1. Counters
    BY DEF Counters, TypeOK
<1>2. h \in HoldsOf(q) /\ HoldsOf(q)' = HoldsOf(q) \ {h}
    BY <1>q DEF HoldsOf, Kept
<1>3. \A r \in Regions \ {q} : HoldsOf(r)' = HoldsOf(r)
    BY <1>q DEF HoldsOf, Kept
<1>4. rc' = Down(q) /\ entries' = entries /\ tenant' = tenant
    BY <1>q DEF registryVars
<1>5. Counters'
    BY <1>1, <1>2, <1>3, <1>4, Removed
<1>6. OneTenant'
    <2> SUFFICES ASSUME NEW g \in Holds, Live(g)' PROVE hold'[g].gen = tenant[hold'[g].region]
        BY <1>4 DEF OneTenant
    <2> QED BY DEF OneTenant, Kept
<1>7. Guards'
    BY DEF Guards, registryVars
<1>8. FreeWhenDone'
    <2> SUFFICES ASSUME NEW g \in Holds, Live(g)', hold'[g].region \in entries
                 PROVE hold'[g].gen \notin called
        BY DEF FreeWhenDone, registryVars
    <2> QED BY DEF FreeWhenDone, Kept
<1> QED BY <1>5, <1>6, <1>7, <1>8 DEF Counters, TypeOK, registryVars

\* Passing holds on: a message that left, was lost, or died with its process.
LEMMA PassInv ==
    ASSUME Inv, hold' \in [Holds -> Hold \cup {Nothing}],
           \A g \in Holds : Kept(g), UNCHANGED <<rc, registryVars>>
    PROVE  Inv'
<1> USE DEF Inv
<1>1. \A r \in Regions : HoldsOf(r)' = HoldsOf(r)
    BY DEF HoldsOf, Kept
<1>2. Counters'
    BY <1>1, Moved DEF Counters, TypeOK, registryVars
<1>3. OneTenant'
    BY DEF OneTenant, Kept, registryVars
<1>4. Guards' /\ FreeWhenDone'
    BY DEF Guards, FreeWhenDone, Kept, registryVars
<1> QED BY <1>2, <1>3, <1>4 DEF Counters, TypeOK, registryVars

\* A live hold in another step or process is a proper hold.
LEMMA AsType ==
    ASSUME TypeOK, NEW h \in Holds, Live(h), NEW s \in Steps, NEW p \in Procs
    PROVE  /\ As(h, s, p) \in Hold /\ Here(h, s) \in Hold
           /\ s # "none"
           /\ As(h, s, p).step = s /\ Here(h, s).step = s
           /\ As(h, s, p).region = hold[h].region /\ Here(h, s).region = hold[h].region
           /\ As(h, s, p).gen = hold[h].gen /\ Here(h, s).gen = hold[h].gen
BY LiveIsHold DEF As, Here, Hold, Steps

\* Steps of MemoryRegion, inside one process or between two.
LEMMA SharingInv == Inv /\ Sharing => Inv'
<1> SUFFICES ASSUME Inv, Sharing PROVE Inv'
    OBVIOUS
<1>0. TypeOK
    BY DEF Inv
<1>s. /\ "held" \in Steps /\ "lent" \in Steps /\ "sending" \in Steps
      /\ "flight" \in Steps /\ "claimed" \in Steps /\ "lost" \in Steps
    BY DEF Steps
<1>a. Owner \in Procs
    BY OwnerAssumption
<1>1. ASSUME NEW h \in Holds, NEW new \in Holds, Clone(h, new) PROVE Inv'
    <2>1. Live(h) /\ ~Live(new) /\ h # new
        BY <1>1 DEF Clone, Is, Live
    <2>2. hold' = [hold EXCEPT ![new] = Here(h, "held")]
        BY <1>1 DEF Clone
    <2>3. Here(h, "held") \in Hold
        BY <1>0, <1>s, <1>a, <2>1, AsType DEF Hold
    <2>4. /\ hold'[new] = Here(h, "held")
          /\ \A g \in Holds \ {new} : hold'[g] = hold[g]
        BY <1>0, <2>2 DEF TypeOK
    <2>5. hold' \in [Holds -> Hold \cup {Nothing}]
        BY <1>0, <2>2, <2>3 DEF TypeOK
    <2>6. Live(new)' /\ hold'[new].region = hold[h].region /\ hold'[new].gen = hold[h].gen
        BY <1>0, <1>s, <1>a, <2>1, <2>4, AsType DEF Live
    <2>7. \A g \in Holds \ {new} : Kept(g)
        BY <2>4 DEF Kept, Live
    <2> QED BY <1>1, <2>1, <2>5, <2>6, <2>7, CopyInv DEF Clone
<1>2. ASSUME NEW h \in Holds, NEW new \in Holds, Lend(h, new) PROVE Inv'
    <2>1. Live(h) /\ ~Live(new) /\ h # new
        BY <1>2 DEF Lend, Is, Live
    <2>2. hold' = [hold EXCEPT ![h] = Here(h, "lent"), ![new] = Here(h, "sending")]
        BY <1>2 DEF Lend
    <2>3. Here(h, "lent") \in Hold /\ Here(h, "sending") \in Hold
        BY <1>0, <1>s, <1>a, <2>1, AsType DEF Hold
    <2>4. /\ hold'[new] = Here(h, "sending") /\ hold'[h] = Here(h, "lent")
          /\ \A g \in Holds \ {h, new} : hold'[g] = hold[g]
        BY <1>0, <2>1, <2>2 DEF TypeOK
    <2>5. hold' \in [Holds -> Hold \cup {Nothing}]
        BY <1>0, <2>2, <2>3 DEF TypeOK
    <2>6. Live(new)' /\ hold'[new].region = hold[h].region /\ hold'[new].gen = hold[h].gen
        BY <1>0, <1>s, <1>a, <2>1, <2>4, AsType DEF Live
    <2>7. Kept(h)
        BY <1>0, <1>s, <1>a, <2>1, <2>4, AsType DEF Kept, Live
    <2>8. \A g \in Holds \ {new} : Kept(g)
        BY <2>4, <2>7 DEF Kept, Live
    <2> QED BY <1>2, <2>1, <2>5, <2>6, <2>8, CopyInv DEF Lend
<1>3. ASSUME NEW h \in Holds, NEW new \in Holds, NEW p \in Procs, Receive(h, new, p) PROVE Inv'
    <2>1. Live(h) /\ ~Live(new) /\ h # new
        BY <1>3 DEF Receive, Is, Live
    <2>2. hold' = [hold EXCEPT ![h] = As(h, "claimed", p), ![new] = As(h, "held", p)]
        BY <1>3 DEF Receive
    <2>3. As(h, "claimed", p) \in Hold /\ As(h, "held", p) \in Hold
        BY <1>0, <1>s, <1>a, <2>1, AsType DEF Hold
    <2>4. /\ hold'[new] = As(h, "held", p) /\ hold'[h] = As(h, "claimed", p)
          /\ \A g \in Holds \ {h, new} : hold'[g] = hold[g]
        BY <1>0, <2>1, <2>2 DEF TypeOK
    <2>5. hold' \in [Holds -> Hold \cup {Nothing}]
        BY <1>0, <2>2, <2>3 DEF TypeOK
    <2>6. Live(new)' /\ hold'[new].region = hold[h].region /\ hold'[new].gen = hold[h].gen
        BY <1>0, <1>s, <1>a, <2>1, <2>4, AsType DEF Live
    <2>7. Kept(h)
        BY <1>0, <1>s, <1>a, <2>1, <2>4, AsType DEF Kept, Live
    <2>8. \A g \in Holds \ {new} : Kept(g)
        BY <2>4, <2>7 DEF Kept, Live
    <2> QED BY <1>3, <2>1, <2>5, <2>6, <2>8, CopyInv DEF Receive
<1>4. ASSUME NEW h \in Holds, NEW new \in Holds, Sent(h, new) PROVE Inv'
    <2>1. Live(h) /\ Live(new) /\ h # new
        BY <1>4 DEF Sent, Is, Live
    <2>2. Here(h, "held") \in Hold /\ Here(new, "flight") \in Hold
        BY <1>0, <1>s, <1>a, <2>1, AsType
    <2>3. /\ hold'[h] = Here(h, "held") /\ hold'[new] = Here(new, "flight")
          /\ \A g \in Holds \ {h, new} : hold'[g] = hold[g]
        BY <1>0, <1>4, <2>1 DEF Sent, TypeOK
    <2>4. hold' \in [Holds -> Hold \cup {Nothing}]
        BY <1>0, <1>4, <2>2 DEF Sent, TypeOK
    <2>5. Kept(h) /\ Kept(new)
        BY <1>0, <1>s, <1>a, <2>1, <2>3, AsType DEF Kept, Live
    <2>6. \A g \in Holds : Kept(g)
        BY <2>3, <2>5 DEF Kept, Live
    <2> QED BY <1>4, <2>4, <2>6, PassInv DEF Sent
<1>5. ASSUME NEW h \in Holds, NEW new \in Holds, NotSent(h, new) PROVE Inv'
    <2>1. Live(h) /\ Live(new) /\ h # new
        BY <1>5 DEF NotSent, Is, Live
    <2>2. Here(h, "held") \in Hold
        BY <1>0, <1>s, <1>a, <2>1, AsType
    <2>3. /\ hold'[h] = Here(h, "held") /\ hold'[new] = Nothing
          /\ \A g \in Holds \ {h, new} : hold'[g] = hold[g]
        BY <1>0, <1>5, <2>1 DEF NotSent, TypeOK
    <2>4. hold' \in [Holds -> Hold \cup {Nothing}]
        BY <1>0, <1>5, <2>2 DEF NotSent, TypeOK
    <2>5. Kept(h) /\ ~Live(new)'
        BY <1>0, <1>s, <1>a, <2>1, <2>3, AsType DEF Kept, Live, Nothing
    <2>6. \A g \in Holds \ {new} : Kept(g)
        BY <2>3, <2>5 DEF Kept, Live
    <2>7. rc' = Down(hold[new].region)
        BY <1>5 DEF NotSent
    <2> QED BY <1>5, <2>1, <2>4, <2>5, <2>6, <2>7, GiveUpInv DEF NotSent
<1>6. ASSUME NEW h \in Holds, Drop(h) \/ Settle(h) PROVE Inv'
    <2>1. Live(h) /\ hold' = [hold EXCEPT ![h] = Nothing]
        BY <1>6 DEF Drop, Settle, Is, Live
    <2>2. ~Live(h)' /\ hold' \in [Holds -> Hold \cup {Nothing}]
        BY <1>0, <2>1 DEF TypeOK, Live, Nothing
    <2>3. \A g \in Holds \ {h} : Kept(g)
        BY <1>0, <2>1 DEF Kept, Live, TypeOK
    <2> QED BY <1>6, <2>1, <2>2, <2>3, GiveUpInv DEF Drop, Settle
<1>7. ASSUME NEW h \in Holds, Lose(h) PROVE Inv'
    <2>1. Live(h)
        BY <1>7 DEF Lose, Is, Live
    <2>2. hold' \in [Holds -> Hold \cup {Nothing}]
        BY <1>0, <1>7, <1>s, <1>a, <2>1, AsType DEF Lose, TypeOK
    <2>3. hold'[h] = Here(h, "lost") /\ \A g \in Holds \ {h} : hold'[g] = hold[g]
        BY <1>0, <1>7 DEF Lose, TypeOK
    <2>4. Kept(h)
        BY <1>0, <1>s, <1>a, <2>1, <2>3, AsType DEF Kept, Live
    <2> QED BY <1>7, <2>2, <2>3, <2>4, PassInv DEF Lose, Kept, Live
<1>8. ASSUME NEW p \in Procs, Crash(p) PROVE Inv'
    <2>1. ASSUME NEW g \in Holds
          PROVE  hold'[g] \in Hold \cup {Nothing} /\ Kept(g)
        <3>1. CASE Has(p, g)
            <4>1. Live(g) /\ hold'[g] = Here(g, "lost")
                BY <1>8, <3>1 DEF Crash, Has
            <4> QED BY <1>0, <1>s, <1>a, <4>1, AsType DEF Kept, Live
        <3>2. CASE ~Has(p, g)
            BY <1>0, <1>8, <3>2 DEF Crash, Kept, Live, TypeOK
        <3> QED BY <3>1, <3>2
    <2>2. hold' \in [Holds -> Hold \cup {Nothing}]
        BY <1>8, <2>1 DEF Crash
    <2> QED BY <1>8, <2>1, <2>2, PassInv DEF Crash
<1> QED BY <1>1, <1>2, <1>3, <1>4, <1>5, <1>6, <1>7, <1>8 DEF Sharing

-----------------------------------------------------------------------------
\* A callback that maintain_inner calls belongs to a region that nobody has, or
\* that the registry forgets.
LEMMA MaintainInv ==
    ASSUME NEW i \in [Regions -> Info], NEW counter \in [Regions -> Nat],
           NEW b \in SUBSET Nat, Maintain(i, counter, b),
           entries \subseteq Regions, allocs' \in Nat,
           \A r \in Regions :
              counter[r] = Cardinality(HoldsOf(r)') + (IF r \in entries THEN 1 ELSE 0),
           \A r \in Regions : tenant'[r] \in Nat /\ tenant'[r] <= allocs',
           \A r, s \in Regions : tenant'[r] = tenant'[s] => r = s \/ tenant'[r] = 0,
           \A r \in entries : i[r].guard = 0 \/ i[r].guard = tenant'[r],
           \A n \in b : 0 < n /\ n <= allocs',
           \A r \in entries : HoldsOf(r)' = {} \/ tenant'[r] \notin b,
           OneTenant', hold' \in [Holds -> Hold \cup {Nothing}]
    PROVE  Guards' /\ FreeWhenDone'
<1> DEFINE gone == Old(i) \cup Unused(counter)
<1>1. gone \subseteq entries
    BY DEF Old, Unused
<1>2. \A r \in gone : i[r].guard \in Nat
    BY <1>1 DEF Info
<1>3. entries' = entries \ Old(i) /\ called' = b \cup ({i[r].guard : r \in gone} \ {0})
    BY DEF Maintain
<1>4. \A r \in entries' : info'[r].guard = 0 \/ info'[r].guard = tenant'[r]
    <2> SUFFICES ASSUME NEW r \in entries'
                 PROVE info'[r].guard = 0 \/ info'[r].guard = tenant'[r]
        OBVIOUS
    <2>1. r \in Regions /\ r \in entries /\ i[r] \in Info
        BY <1>3
    <2>2. info'[r] = IF r \in gone THEN [i[r] EXCEPT !.guard = 0] ELSE i[r]
        BY <2>1 DEF Maintain
    <2> QED BY <2>1, <2>2 DEF Info
<1>5. \A n \in called' : n \in b \/ \E r \in gone : n = tenant'[r] /\ n # 0
    BY <1>1, <1>3
<1>6. \A n \in called' : 0 < n /\ n <= allocs'
    <2> SUFFICES ASSUME NEW n \in called' PROVE 0 < n /\ n <= allocs'
        OBVIOUS
    <2>1. CASE n \in b
        BY <2>1
    <2>2. CASE \E r \in gone : n = tenant'[r] /\ n # 0
        <3>1. PICK r \in gone : n = tenant'[r] /\ n # 0
            BY <2>2
        <3>2. r \in Regions
            BY <1>1
        <3>3. tenant'[r] \in Nat /\ tenant'[r] <= allocs'
            BY <3>2
        <3> QED BY <3>1, <3>3
    <2> QED BY <1>5, <2>1, <2>2
<1>7. \A r \in entries' : HoldsOf(r)' = {} \/ tenant'[r] \notin called'
    <2> SUFFICES ASSUME NEW r \in entries', HoldsOf(r)' # {}, tenant'[r] \in called'
                 PROVE FALSE
        OBVIOUS
    <2>1. r \in entries /\ r \notin Old(i) /\ r \in Regions
        BY <1>3
    <2>2. tenant'[r] \notin b
        BY <2>1
    <2>3. PICK s \in gone : tenant'[r] = tenant'[s] /\ tenant'[r] # 0
        BY <1>5, <2>2
    <2>4. r = s
        BY <1>1, <2>1, <2>3
    <2>5. counter[r] = 1
        BY <2>1, <2>3, <2>4 DEF Unused
    <2>6. Cardinality(HoldsOf(r)') = 0
        BY <2>1, <2>5, HoldsOfFinite
    <2> QED BY <2>6, HoldsOfFinite, FS_EmptySet
<1>8. FreeWhenDone'
    <2> SUFFICES ASSUME NEW h \in Holds, Live(h)', hold'[h].region \in entries',
                        hold'[h].gen \in called'
                 PROVE FALSE
        BY DEF FreeWhenDone
    <2>1. PICK r \in entries' : r = hold'[h].region
        OBVIOUS
    <2>2. h \in HoldsOf(r)'
        BY <2>1 DEF HoldsOf
    <2>3. hold'[h].gen = tenant'[r]
        BY <2>1 DEF OneTenant
    <2> QED BY <1>7, <2>2, <2>3
<1> QED BY <1>4, <1>6, <1>8 DEF Guards

\* What the holds of a region say about its callback, region by region.
LEMMA NotCalled ==
    ASSUME OneTenant, FreeWhenDone, NEW r \in entries
    PROVE  HoldsOf(r) = {} \/ tenant[r] \notin called
<1> SUFFICES ASSUME NEW h \in HoldsOf(r) PROVE tenant[r] \notin called
    OBVIOUS
<1>1. h \in Holds /\ Live(h) /\ hold[h].region = r
    BY DEF HoldsOf
<1> QED BY <1>1 DEF OneTenant, FreeWhenDone

\* maintain, and alloc when there is no memory.
LEMMA CallMaintainInv ==
    ASSUME Inv, Maintain(info, rc, called), UNCHANGED <<hold, allocs, tenant, accepted>>
    PROVE  Inv'
<1> USE DEF Inv
<1>0. TypeOK
    OBVIOUS
<1>1. \A r \in Regions : HoldsOf(r)' = HoldsOf(r)
    BY DEF HoldsOf, Live
<1>2. \A r \in Regions :
          rc[r] = Cardinality(HoldsOf(r)') + (IF r \in entries THEN 1 ELSE 0)
    BY <1>1 DEF RefCountExact
<1>3. Counters'
    BY <1>0, <1>2, Swept DEF TypeOK
<1>4. entries' \subseteq Regions /\ info' \in [Regions -> Info] /\ called' \subseteq Nat
    BY <1>0, MaintainType DEF TypeOK
<1>5. OneTenant'
    BY DEF OneTenant, Live
<1>6. \A r \in entries : HoldsOf(r)' = {} \/ tenant'[r] \notin called
    BY <1>0, <1>1, NotCalled DEF TypeOK
<1>7. Guards' /\ FreeWhenDone'
    BY <1>0, <1>2, <1>5, <1>6, MaintainInv DEF TypeOK, Guards
<1> QED BY <1>3, <1>4, <1>5, <1>7 DEF Counters, TypeOK

\* A hold that did not exist goes to the caller of alloc, with the new number.
LEMMA HandleType ==
    ASSUME TypeOK, NEW r \in Regions
    PROVE  /\ Handle(r) \in Hold /\ Handle(r).step = "held"
           /\ Handle(r).region = r /\ Handle(r).gen = allocs + 1
BY OwnerAssumption DEF TypeOK, Handle, Hold, Steps

\* alloc, out of the registry: the region it picks has no holds, so that nobody
\* is left who got it from an earlier call.
LEMMA ReuseInv ==
    ASSUME Inv, NEW min, NEW tag, NEW free \in BOOLEAN, NEW new \in Holds,
           Reuse(min, tag, free, new)
    PROVE  Inv'
<1> USE DEF Inv
<1>0. TypeOK /\ Counters
    BY DEF TypeOK, Counters
<1>1. PICK r \in Reusable(min, tag) :
          /\ hold' = [hold EXCEPT ![new] = Handle(r)]
          /\ tenant' = [tenant EXCEPT ![r] = allocs + 1]
          /\ Maintain([info EXCEPT ![r].age = 0, ![r].guard = Guard(free)],
                      Up(r), called \cup Replaced(r))
    BY DEF Reuse
<1> DEFINE i == [info EXCEPT ![r].age = 0, ![r].guard = Guard(free)]
           b == called \cup Replaced(r)
<1>2. r \in entries /\ r \in Regions /\ rc[r] = 1 /\ ~Live(new) /\ allocs' = allocs + 1
    BY <1>0, <1>1 DEF Reusable, TypeOK, Reuse
<1>3. HoldsOf(r) = {}
    BY <1>0, <1>2, ReusableIsFree
<1>4. /\ hold'[new] = Handle(r) /\ \A g \in Holds \ {new} : hold'[g] = hold[g]
      /\ hold' \in [Holds -> Hold \cup {Nothing}]
    BY <1>0, <1>1, <1>2, HandleType DEF TypeOK
<1>5. /\ Live(new)' /\ hold'[new].region = r /\ hold'[new].gen = allocs + 1
      /\ \A g \in Holds \ {new} : Live(g)' <=> Live(g)
    BY <1>0, <1>2, <1>4, HandleType DEF Live
<1>6. HoldsOf(r)' = {new}
    BY <1>3, <1>4, <1>5 DEF HoldsOf
<1>7. \A s \in Regions \ {r} : HoldsOf(s)' = HoldsOf(s)
    <2> SUFFICES ASSUME NEW s \in Regions \ {r}, NEW g \in Holds
                 PROVE (Live(g)' /\ hold'[g].region = s) <=> (Live(g) /\ hold[g].region = s)
        BY DEF HoldsOf
    <2>1. CASE g = new
        BY <1>2, <1>5, <2>1
    <2>2. CASE g # new
        BY <1>4, <1>5, <2>2
    <2> QED BY <2>1, <2>2
<1>8. Up(r) \in [Regions -> Nat] /\ Up(r)[r] = 2 /\ \A s \in Regions \ {r} : Up(r)[s] = rc[s]
    BY <1>0, <1>2 DEF Up, TypeOK
<1>9. \A s \in Regions :
          Up(r)[s] = Cardinality(HoldsOf(s)') + (IF s \in entries THEN 1 ELSE 0)
    <2>1. Cardinality(HoldsOf(r)') = 1
        BY <1>6, FS_Singleton
    <2> QED BY <1>2, <1>7, <1>8, <2>1 DEF RefCountExact
<1>10. /\ i \in [Regions -> Info] /\ Guard(free) \in {0, allocs + 1}
       /\ i[r].guard = Guard(free) /\ \A s \in Regions \ {r} : i[s] = info[s]
    <2>1. info[r] \in Info /\ Guard(free) \in Nat /\ Guard(free) \in {0, allocs + 1}
        BY <1>0, <1>2 DEF TypeOK, Guard
    <2>2. [[info[r] EXCEPT !.age = 0] EXCEPT !.guard = Guard(free)] \in Info
        BY <2>1 DEF Info
    <2>3. i[r].guard = Guard(free) /\ \A s \in Regions \ {r} : i[s] = info[s]
        BY <1>0, <1>2, <2>1 DEF TypeOK, Info
    <2>4. i \in [Regions -> Info]
        BY <1>0, <2>1, <2>2 DEF TypeOK, Info
    <2> QED BY <2>1, <2>3, <2>4
<1>11. /\ b \in SUBSET Nat
       /\ \A n \in b : n \in called \/ (n = tenant[r] /\ n # 0)
    <2>1. info[r].guard \in Nat /\ (info[r].guard = 0 \/ info[r].guard = tenant[r])
        BY <1>0, <1>2 DEF TypeOK, Guards, Info
    <2>2. \A n \in b : n \in called \/ (n = info[r].guard /\ n # 0)
        BY DEF Replaced
    <2> QED BY <1>0, <2>1, <2>2 DEF TypeOK
<1>12. tenant'[r] = allocs + 1 /\ \A s \in Regions \ {r} : tenant'[s] = tenant[s]
    BY <1>0, <1>1, <1>2 DEF TypeOK
<1>13. OneTenant'
    <2> SUFFICES ASSUME NEW g \in Holds, Live(g)' PROVE hold'[g].gen = tenant'[hold'[g].region]
        BY DEF OneTenant
    <2>1. CASE g = new
        BY <1>5, <1>12, <2>1
    <2>2. CASE g # new
        <3>1. Live(g) /\ hold'[g] = hold[g]
            BY <1>4, <1>5, <2>2
        <3>2. hold[g].region \in Regions /\ hold[g].region # r
            BY <1>0, <1>3, <3>1, LiveIsHold DEF HoldsOf, Hold
        <3> QED BY <1>12, <3>1, <3>2 DEF OneTenant
    <2> QED BY <2>1, <2>2
<1>14. Counters'
    BY <1>1, <1>8, <1>9, Swept
<1>15. entries' \subseteq Regions /\ info' \in [Regions -> Info] /\ called' \subseteq Nat
    BY <1>0, <1>1, <1>10, <1>11, MaintainType
<1>16. /\ \A s \in Regions : tenant'[s] \in Nat /\ tenant'[s] <= allocs'
       /\ \A s, t \in Regions : tenant'[s] = tenant'[t] => s = t \/ tenant'[s] = 0
       /\ \A s \in entries : i[s].guard = 0 \/ i[s].guard = tenant'[s]
       /\ \A n \in b : 0 < n /\ n <= allocs'
    <2>1. \A s \in Regions : tenant[s] \in Nat /\ tenant[s] <= allocs
        BY <1>0 DEF TypeOK, Guards
    <2>2. allocs \in Nat
        BY <1>0 DEF TypeOK
    <2>3. \A s \in Regions : tenant'[s] \in Nat /\ tenant'[s] <= allocs'
        BY <1>2, <1>12, <2>1, <2>2
    <2>4. \A s, t \in Regions : tenant'[s] = tenant'[t] => s = t \/ tenant'[s] = 0
        BY <1>12, <2>1, <2>2 DEF Guards
    <2>5. \A s \in entries : i[s].guard = 0 \/ i[s].guard = tenant'[s]
        BY <1>0, <1>10, <1>12 DEF Guards, TypeOK
    <2>6. \A n \in b : 0 < n /\ n <= allocs'
        BY <1>2, <1>11, <2>1, <2>2 DEF Guards, TypeOK
    <2> QED BY <2>3, <2>4, <2>5, <2>6
<1>17. \A s \in entries : HoldsOf(s)' = {} \/ tenant'[s] \notin b
    <2>1. \A s \in entries : HoldsOf(s) = {} \/ tenant[s] \notin called
        BY NotCalled
    <2>2. tenant'[r] \notin b
        BY <1>0, <1>2, <1>11, <1>12 DEF Guards, TypeOK
    <2>3. ASSUME NEW s \in entries, s # r PROVE HoldsOf(s)' = {} \/ tenant'[s] \notin b
        BY <1>0, <1>2, <1>7, <1>11, <1>12, <2>1, <2>3 DEF Guards, TypeOK
    <2> QED BY <2>2, <2>3
<1>18. Guards' /\ FreeWhenDone'
    <2>1. allocs' \in Nat /\ entries \subseteq Regions
        BY <1>0, <1>2 DEF TypeOK
    <2>2. Maintain(i, Up(r), b)
        BY <1>1
    <2>3. i \in [Regions -> Info] /\ Up(r) \in [Regions -> Nat] /\ b \in SUBSET Nat
        BY <1>8, <1>10, <1>11
    <2> HIDE DEF i, b
    <2> QED BY <1>4, <1>9, <1>13, <1>16, <1>17, <2>1, <2>2, <2>3, MaintainInv
<1>19. accepted' \subseteq Nat /\ allocs' \in Nat /\ tenant' \in [Regions -> Nat]
    <2>1. allocs + 1 \in Nat
        BY <1>0 DEF TypeOK
    <2>2. accepted' = accepted \/ accepted' = accepted \cup {allocs + 1}
        BY DEF Reuse, Accept
    <2> QED BY <1>0, <1>1, <1>2, <2>1, <2>2 DEF TypeOK
<1> QED BY <1>4, <1>13, <1>14, <1>15, <1>18, <1>19 DEF Counters, TypeOK

\* alloc of a new region, which nobody has and the registry does not remember.
LEMMA AllocNewInv ==
    ASSUME Inv, NEW min \in Sizes, NEW tag \in Tags, NEW free \in BOOLEAN,
           NEW new \in Holds, AllocNew(min, tag, free, new)
    PROVE  Inv'
<1> USE DEF Inv
<1>0. TypeOK /\ Counters
    BY DEF TypeOK, Counters
<1>1. PICK r \in Fresh :
          /\ hold' = [hold EXCEPT ![new] = Handle(r)]
          /\ tenant' = [tenant EXCEPT ![r] = allocs + 1]
          /\ entries' = (entries \ Old(info)) \cup {r}
          /\ rc' = [s \in Regions |->
                      IF s = r THEN 2 ELSE IF s \in Old(info) THEN rc[s] - 1 ELSE rc[s]]
          /\ info' = [s \in Regions |->
                        IF s = r
                        THEN [size |-> min, tag |-> tag, age |-> 0, guard |-> Guard(free)]
                        ELSE IF s \in Old(info) \cup Unused(rc)
                        THEN [info[s] EXCEPT !.guard = 0] ELSE info[s]]
    BY DEF AllocNew
<1> DEFINE gone == Old(info) \cup Unused(rc)
<1>2. /\ r \in Regions /\ r \notin entries /\ HoldsOf(r) = {}
      /\ ~Live(new) /\ allocs' = allocs + 1
    BY DEF Fresh, AllocNew
<1>3. gone \subseteq entries /\ Old(info) \subseteq entries /\ entries \subseteq Regions
    BY <1>0 DEF Old, Unused, TypeOK
<1>4. /\ hold'[new] = Handle(r) /\ \A g \in Holds \ {new} : hold'[g] = hold[g]
      /\ hold' \in [Holds -> Hold \cup {Nothing}]
    BY <1>0, <1>1, <1>2, HandleType DEF TypeOK
<1>5. /\ Live(new)' /\ hold'[new].region = r /\ hold'[new].gen = allocs + 1
      /\ \A g \in Holds \ {new} : Live(g)' <=> Live(g)
    BY <1>0, <1>2, <1>4, HandleType DEF Live
<1>6. HoldsOf(r)' = {new}
    BY <1>2, <1>4, <1>5 DEF HoldsOf
<1>7. \A s \in Regions \ {r} : HoldsOf(s)' = HoldsOf(s)
    <2> SUFFICES ASSUME NEW s \in Regions \ {r}, NEW g \in Holds
                 PROVE (Live(g)' /\ hold'[g].region = s) <=> (Live(g) /\ hold[g].region = s)
        BY DEF HoldsOf
    <2>1. CASE g = new
        BY <1>2, <1>5, <2>1
    <2>2. CASE g # new
        BY <1>4, <1>5, <2>2
    <2> QED BY <2>1, <2>2
<1>8. tenant'[r] = allocs + 1 /\ \A s \in Regions \ {r} : tenant'[s] = tenant[s]
    BY <1>0, <1>1, <1>2 DEF TypeOK
<1>9. \A s \in Regions : tenant[s] \in Nat /\ tenant[s] <= allocs
    BY <1>0 DEF TypeOK, Guards
<1>10. allocs \in Nat /\ Guard(free) \in {0, allocs + 1}
    BY <1>0 DEF TypeOK, Guard
<1>11. Counters'
    <2>1. Cardinality(HoldsOf(r)') = 1
        BY <1>6, FS_Singleton
    <2>2. rc'[r] = Cardinality(HoldsOf(r)') + (IF r \in entries' THEN 1 ELSE 0)
        BY <1>1, <1>2, <2>1
    <2>3. ASSUME NEW s \in Regions \ {r}
          PROVE  rc'[s] = Cardinality(HoldsOf(s)') + (IF s \in entries' THEN 1 ELSE 0)
        <3>1. rc[s] = Cardinality(HoldsOf(s)') + (IF s \in entries THEN 1 ELSE 0)
            BY <1>7 DEF RefCountExact
        <3> QED BY <1>1, <1>3, <3>1, HoldsOfFinite
    <2>4. \A s \in Regions :
              rc'[s] = Cardinality(HoldsOf(s)') + (IF s \in entries' THEN 1 ELSE 0)
        BY <2>2, <2>3
    <2>5. \A s \in Regions : rc'[s] \in Nat
        BY <2>4, HoldsOfFinite
    <2>6. rc' \in [Regions -> Nat]
        BY <1>1, <2>5
    <2> QED BY <2>4, <2>6 DEF Counters, RefCountExact
<1>12. OneTenant'
    <2> SUFFICES ASSUME NEW g \in Holds, Live(g)' PROVE hold'[g].gen = tenant'[hold'[g].region]
        BY DEF OneTenant
    <2>1. CASE g = new
        BY <1>5, <1>8, <2>1
    <2>2. CASE g # new
        <3>1. Live(g) /\ hold'[g] = hold[g]
            BY <1>4, <1>5, <2>2
        <3>2. hold[g].region \in Regions /\ hold[g].region # r
            BY <1>0, <1>2, <3>1, LiveIsHold DEF HoldsOf, Hold
        <3> QED BY <1>8, <3>1, <3>2 DEF OneTenant
    <2> QED BY <2>1, <2>2
<1>13. ASSUME NEW s \in Regions
       PROVE  /\ info'[s] \in Info
              /\ s = r => info'[s].guard = Guard(free)
              /\ s # r => info'[s].guard = 0 \/ info'[s].guard = info[s].guard
    <2>1. info[s] \in Info /\ Guard(free) \in Nat /\ min \in Nat
        BY <1>0, <1>10, NumbersAssumption DEF TypeOK
    <2>2. [info[s] EXCEPT !.guard = 0] \in Info /\ [info[s] EXCEPT !.guard = 0].guard = 0
        BY <2>1 DEF Info
    <2>3. [size |-> min, tag |-> tag, age |-> 0, guard |-> Guard(free)] \in Info
        BY <2>1 DEF Info
    <2> QED BY <1>1, <2>1, <2>2, <2>3
<1>14. \A n \in called' : n \in called \/ \E s \in gone : n = tenant[s] /\ n # 0
    <2>1. called' = called \cup ({info[s].guard : s \in gone} \ {0})
        BY DEF AllocNew
    <2> QED BY <1>3, <2>1 DEF Guards
<1>15. called' \subseteq Nat /\ \A n \in called' : 0 < n /\ n <= allocs
    <2> SUFFICES ASSUME NEW n \in called' PROVE n \in Nat /\ 0 < n /\ n <= allocs
        OBVIOUS
    <2>1. CASE n \in called
        BY <1>0, <2>1 DEF Guards, TypeOK
    <2>2. CASE \E s \in gone : n = tenant[s] /\ n # 0
        BY <1>3, <1>9, <2>2
    <2> QED BY <1>14, <2>1, <2>2
<1>16. Guards'
    <2>1. \A s \in Regions : tenant'[s] <= allocs'
        BY <1>2, <1>8, <1>9, <1>10
    <2>2. \A s, t \in Regions : tenant'[s] = tenant'[t] => s = t \/ tenant'[s] = 0
        BY <1>8, <1>9, <1>10 DEF Guards
    <2>3. \A s \in entries' : info'[s].guard = 0 \/ info'[s].guard = tenant'[s]
        <3> SUFFICES ASSUME NEW s \in entries'
                     PROVE info'[s].guard = 0 \/ info'[s].guard = tenant'[s]
            OBVIOUS
        <3>1. CASE s = r
            BY <1>2, <1>8, <1>10, <1>13, <3>1
        <3>2. CASE s # r
            BY <1>1, <1>3, <1>8, <1>13, <3>2 DEF Guards
        <3> QED BY <3>1, <3>2
    <2>4. \A n \in called' : 0 < n /\ n <= allocs'
        BY <1>0, <1>2, <1>10, <1>15
    <2> QED BY <2>1, <2>2, <2>3, <2>4 DEF Guards
<1>17. FreeWhenDone'
    <2> SUFFICES ASSUME NEW h \in Holds, Live(h)', hold'[h].region \in entries',
                        hold'[h].gen \in called'
                 PROVE FALSE
        BY DEF FreeWhenDone
    <2>1. h # new
        BY <1>5, <1>10, <1>15
    <2>2. Live(h) /\ hold'[h] = hold[h]
        BY <1>4, <1>5, <2>1
    <2>3. PICK s \in Regions : s = hold[h].region
        BY <1>0, <2>2, LiveIsHold DEF Hold
    <2>4. h \in HoldsOf(s) /\ s # r
        BY <1>2, <2>2, <2>3 DEF HoldsOf
    <2>5. s \in entries /\ s \notin Old(info)
        BY <1>1, <2>2, <2>3, <2>4
    <2>6. hold[h].gen = tenant[s] /\ tenant[s] \notin called
        BY <2>2, <2>3, <2>5 DEF OneTenant, FreeWhenDone
    <2>7. PICK t \in gone : tenant[s] = tenant[t] /\ tenant[s] # 0
        BY <1>14, <2>2, <2>6
    <2>8. s = t
        BY <1>3, <2>7 DEF Guards
    <2>9. rc[s] = 1
        BY <2>5, <2>7, <2>8 DEF Unused
    <2>10. Cardinality(HoldsOf(s)) = 0
        BY <2>5, <2>9, HoldsOfFinite DEF RefCountExact
    <2> QED BY <2>4, <2>10, HoldsOfFinite, FS_EmptySet
<1>18. TypeOK'
    <2>1. info' \in [Regions -> Info]
        BY <1>1, <1>13
    <2>2. accepted' \subseteq Nat /\ allocs' \in Nat
        <3>1. accepted' = accepted \/ accepted' = accepted \cup {allocs + 1}
            BY DEF AllocNew, Accept
        <3>2. allocs + 1 \in Nat /\ accepted \subseteq Nat
            BY <1>0, <1>10 DEF TypeOK
        <3> QED BY <1>2, <3>1, <3>2
    <2>3. tenant' \in [Regions -> Nat] /\ entries' \subseteq Regions
        BY <1>0, <1>1, <1>2, <1>3, <1>10 DEF TypeOK
    <2> QED BY <1>4, <1>11, <1>15, <2>1, <2>2, <2>3 DEF TypeOK, Counters
<1> QED BY <1>11, <1>12, <1>16, <1>17, <1>18 DEF Counters

-----------------------------------------------------------------------------
LEMMA StepInv == Inv /\ [Next]_vars => Inv'
<1> SUFFICES ASSUME Inv, [Next]_vars PROVE Inv'
    OBVIOUS
<1>1. CASE Sharing
    BY <1>1, SharingInv
<1>2. CASE Alloc
    <2>1. PICK min \in Sizes, tag \in Tags :
              \/ \E free \in BOOLEAN, new \in Holds :
                    Reuse(min, tag, free, new) \/ AllocNew(min, tag, free, new)
              \/ ReuseFails(min, tag) \/ AllocFails(min, tag)
        BY <1>2 DEF Alloc
    <2>2. ASSUME NEW free \in BOOLEAN, NEW new \in Holds, Reuse(min, tag, free, new)
          PROVE  Inv'
        BY <2>2, ReuseInv
    <2>3. ASSUME NEW free \in BOOLEAN, NEW new \in Holds, AllocNew(min, tag, free, new)
          PROVE  Inv'
        BY <2>3, AllocNewInv
    <2>4. CASE ReuseFails(min, tag)
        <3>1. PICK r \in Reusable(min, tag) : info' = [info EXCEPT ![r].age = 0]
            BY <2>4 DEF ReuseFails
        <3>2. \A s \in Regions :
                 info'[s] \in Info /\ info'[s].guard = info[s].guard
            BY <3>1 DEF Inv, TypeOK, Info
        <3>3. info' \in [Regions -> Info]
            BY <3>1, <3>2 DEF Inv, TypeOK
        <3> QED BY <2>4, <3>2, <3>3 DEF ReuseFails, Inv, TypeOK, RefCountExact, HoldsOf, Live,
                    OneTenant, Guards, FreeWhenDone
    <2>5. CASE AllocFails(min, tag)
        BY <2>5, CallMaintainInv DEF AllocFails
    <2> QED BY <2>1, <2>2, <2>3, <2>4, <2>5
<1>3. CASE CallMaintain
    BY <1>3, CallMaintainInv DEF CallMaintain
<1>4. CASE Tick
    <2>1. \A s \in Regions : info'[s] \in Info /\ info'[s].guard = info[s].guard
        BY <1>4 DEF Tick, Inv, TypeOK, Info
    <2>2. info' \in [Regions -> Info]
        BY <1>4, <2>1 DEF Tick
    <2> QED BY <1>4, <2>1, <2>2 DEF Tick, Inv, TypeOK, RefCountExact, HoldsOf, Live,
                OneTenant, Guards, FreeWhenDone
<1>5. CASE UNCHANGED vars
    BY <1>5 DEF vars, registryVars, Inv, TypeOK, RefCountExact, HoldsOf, Live, OneTenant,
                Guards, FreeWhenDone
<1> QED BY <1>1, <1>2, <1>3, <1>4, <1>5 DEF Next

LEMMA SpecInv == Spec => []Inv
<1> QED BY InitInv, StepInv, PTL DEF Spec

\* The counter in the header of a region is exactly the number of its holds and
\* the registry's share, whatever is sent, lost or dies, and never below zero.
THEOREM RefCountExactAlways == Spec => []RefCountExact
BY SpecInv, PTL DEF Inv

\* alloc never hands out a region that somebody has from an earlier call.
THEOREM OneTenantAlways == Spec => []OneTenant
BY SpecInv, PTL DEF Inv

\* The callback of a region that the registry remembers is not called before the
\* last process is done with it.
THEOREM FreeWhenDoneAlways == Spec => []FreeWhenDone
BY SpecInv, PTL DEF Inv

\* The types of the counters, holds and entries.
THEOREM TypeCorrect == Spec => []TypeOK
BY SpecInv, PTL DEF Inv

-----------------------------------------------------------------------------
(* The callbacks *)

\* The callbacks that wait in entries.
Waiting(i, e) == {i[r].guard : r \in e} \ {0}

Accounted ==
    /\ accepted = called \cup Waiting(info, entries)
    /\ \A r \in entries : info[r].guard \notin called

\* From the callbacks i of the entries e those of `gone` are called, after b; what is
\* left are the callbacks j of the entries e2.
Sweeps(e, i, b, gone, e2, j, c) ==
    /\ gone \subseteq e /\ e2 \subseteq e /\ e \ e2 \subseteq gone
    /\ 0 \notin b /\ \A r \in e : i[r].guard \notin b
    /\ \A r, s \in e : i[r].guard = i[s].guard => r = s \/ i[r].guard = 0
    /\ \A r \in e2 : r \in gone => j[r].guard = 0
    /\ \A r \in e2 : r \notin gone => j[r].guard = i[r].guard
    /\ c = b \cup Waiting(i, gone)

\* Calling the callbacks of some entries and forgetting some of these moves the
\* callbacks from those that wait to those that were called.
LEMMA SweepAccounts ==
    ASSUME NEW e, NEW i, NEW b, NEW gone, NEW e2, NEW j, NEW c,
           Sweeps(e, i, b, gone, e2, j, c)
    PROVE  /\ b \cup Waiting(i, e) = c \cup Waiting(j, e2)
           /\ \A r \in e2 : j[r].guard \notin c
<1> USE DEF Sweeps
<1>1. ASSUME NEW n \in Waiting(i, e) PROVE n \in c \cup Waiting(j, e2)
    <2>1. PICK r \in e : n = i[r].guard /\ n # 0
        BY DEF Waiting
    <2>2. CASE r \in gone
        BY <2>1, <2>2 DEF Waiting
    <2>3. CASE r \notin gone
        <3>1. r \in e2 /\ j[r].guard = i[r].guard
            BY <2>3
        <3> QED BY <2>1, <3>1 DEF Waiting
    <2> QED BY <2>2, <2>3
<1>2. Waiting(i, gone) \subseteq Waiting(i, e)
    BY DEF Waiting
<1>3. Waiting(j, e2) \subseteq Waiting(i, e)
    <2> SUFFICES ASSUME NEW r \in e2, j[r].guard # 0 PROVE j[r].guard \in Waiting(i, e)
        BY DEF Waiting
    <2>1. r \in e /\ j[r].guard = i[r].guard
        OBVIOUS
    <2> QED BY <2>1 DEF Waiting
<1>4. ASSUME NEW r \in e2 PROVE j[r].guard \notin c
    <2>1. CASE j[r].guard = 0
        BY <2>1 DEF Waiting
    <2>2. CASE j[r].guard # 0
        <3>1. r \notin gone /\ j[r].guard = i[r].guard /\ r \in e
            BY <2>2
        <3>2. j[r].guard \notin Waiting(i, gone)
            BY <2>2, <3>1 DEF Waiting
        <3> QED BY <3>1, <3>2
    <2> QED BY <2>1, <2>2
<1> QED BY <1>1, <1>2, <1>3, <1>4

\* No two entries have one callback.
LEMMA GuardsDiffer ==
    ASSUME Inv
    PROVE  /\ \A r, s \in entries : info[r].guard = info[s].guard => r = s \/ info[r].guard = 0
           /\ 0 \notin called
           /\ \A r \in entries : info[r].guard \in Nat /\ info[r].guard <= allocs
           /\ entries \subseteq Regions /\ allocs \in Nat
<1>1. entries \subseteq Regions /\ allocs \in Nat /\ tenant \in [Regions -> Nat]
      /\ \A r \in entries : info[r].guard \in Nat
    BY DEF Inv, TypeOK, Info
<1>2. \A r \in entries : info[r].guard = 0 \/ info[r].guard = tenant[r]
    BY DEF Inv, Guards
<1>3. \A r, s \in entries : info[r].guard = info[s].guard => r = s \/ info[r].guard = 0
    BY <1>1, <1>2 DEF Inv, Guards
<1>4. \A r \in entries : info[r].guard <= allocs
    BY <1>1, <1>2 DEF Inv, Guards
<1>5. 0 \notin called
    BY DEF Inv, Guards
<1> QED BY <1>1, <1>3, <1>4, <1>5

LEMMA MaintainAccounts ==
    ASSUME entries \subseteq Regions, NEW i, NEW counter, NEW b, Maintain(i, counter, b),
           \A r \in entries : i[r] \in Info,
           0 \notin b, \A r \in entries : i[r].guard \notin b,
           \A r, s \in entries : i[r].guard = i[s].guard => r = s \/ i[r].guard = 0,
           accepted' = b \cup Waiting(i, entries)
    PROVE  Accounted'
<1> DEFINE gone == Old(i) \cup Unused(counter)
<1>1. gone \in SUBSET entries /\ entries' \in SUBSET entries /\ entries \ entries' \subseteq gone
    BY DEF Maintain, Old, Unused
<1>2. /\ \A r \in entries' : r \in gone => info'[r].guard = 0
      /\ \A r \in entries' : r \notin gone => info'[r].guard = i[r].guard
    <2> SUFFICES ASSUME NEW r \in entries'
                 PROVE  /\ r \in gone => info'[r].guard = 0
                        /\ r \notin gone => info'[r].guard = i[r].guard
        OBVIOUS
    <2>1. r \in Regions /\ i[r] \in Info
        BY <1>1
    <2>2. info'[r] = IF r \in gone THEN [i[r] EXCEPT !.guard = 0] ELSE i[r]
        BY <2>1 DEF Maintain
    <2> QED BY <2>1, <2>2 DEF Info
<1>3. called' = b \cup Waiting(i, gone)
    BY DEF Maintain, Waiting
<1> HIDE DEF gone
<1>4. Sweeps(entries, i, b, gone, entries', info', called')
    BY <1>1, <1>2, <1>3 DEF Sweeps
<1>5. /\ b \cup Waiting(i, entries) = called' \cup Waiting(info', entries')
      /\ \A r \in entries' : info'[r].guard \notin called'
    BY <1>4, SweepAccounts
<1> QED BY <1>5 DEF Accounted, Waiting

LEMMA ReuseAccounts ==
    ASSUME Inv, Accounted, NEW min, NEW tag, NEW free \in BOOLEAN, NEW new \in Holds,
           Reuse(min, tag, free, new)
    PROVE  Accounted'
<1>1. PICK r \in Reusable(min, tag) :
          Maintain([info EXCEPT ![r].age = 0, ![r].guard = Guard(free)],
                   Up(r), called \cup Replaced(r))
    BY DEF Reuse
<1> DEFINE i == [info EXCEPT ![r].age = 0, ![r].guard = Guard(free)]
           b == called \cup Replaced(r)
           g == Guard(free)
<1>2. r \in entries /\ r \in Regions /\ info \in [Regions -> Info] /\ allocs \in Nat
    BY DEF Reusable, Inv, TypeOK
<1>n. allocs \in Nat
    BY <1>2
<1>3. g \in {0, allocs + 1} /\ g \in Nat
    BY <1>2 DEF Guard
<1>4. i[r].guard = g /\ i[r] \in Info
    <2>1. info[r] \in Info
        BY <1>2
    <2>2. i[r] = [[info[r] EXCEPT !.age = 0] EXCEPT !.guard = g]
        BY <1>2
    <2> HIDE DEF i, g
    <2>3. [[info[r] EXCEPT !.age = 0] EXCEPT !.guard = g] \in Info
        BY <1>3, <2>1 DEF Info
    <2>4. [[info[r] EXCEPT !.age = 0] EXCEPT !.guard = g].guard = g
        BY <2>1 DEF Info
    <2> QED BY <2>2, <2>3, <2>4
<1>5. \A s \in Regions \ {r} : i[s] = info[s]
    BY <1>2
<1>6. accepted' = accepted \cup ({g} \ {0})
    BY <1>2 DEF Reuse, Accept, Guard
<1>7. b = called \cup ({info[r].guard} \ {0})
    BY DEF Replaced
<1>8. Maintain(i, Up(r), b)
    BY <1>1
<1>9. /\ entries \subseteq Regions /\ 0 \notin called
      /\ \A s \in entries : info[s].guard \in Nat /\ info[s].guard <= allocs
      /\ \A s, t \in entries : info[s].guard = info[t].guard => s = t \/ info[s].guard = 0
      /\ \A n \in called : n <= allocs
    BY GuardsDiffer DEF Inv, Guards
<1> HIDE DEF i, b, g
<1>10. \A s \in entries : i[s] \in Info
    BY <1>2, <1>4, <1>5, <1>9
<1>11. 0 \notin b /\ \A s \in entries : i[s].guard \notin b
    <2>1. g \notin b
        BY <1>2, <1>3, <1>7, <1>9
    <2>2. ASSUME NEW s \in entries, s # r PROVE info[s].guard \notin b
        BY <1>2, <1>7, <1>9, <2>2 DEF Accounted
    <2> QED BY <1>4, <1>5, <1>7, <1>9, <2>1, <2>2
<1>12. \A s, t \in entries : i[s].guard = i[t].guard => s = t \/ i[s].guard = 0
    <2> SUFFICES ASSUME NEW s \in entries, NEW t \in entries, i[s].guard = i[t].guard, s # t
                 PROVE  i[s].guard = 0
        OBVIOUS
    <2>1. CASE s # r /\ t # r
        BY <1>5, <1>9, <2>1
    <2>2. CASE s = r
        <3>1. i[s].guard = g /\ i[t].guard = info[t].guard
            BY <1>4, <1>5, <1>9, <2>2
        <3>2. info[t].guard \in Nat /\ info[t].guard <= allocs
            BY <1>9
        <3>3. g = info[t].guard
            BY <3>1
        <3>4. g = 0
            BY <1>n, <1>3, <3>2, <3>3
        <3> QED BY <3>1, <3>4
    <2>3. CASE t = r
        <3>1. i[t].guard = g /\ i[s].guard = info[s].guard
            BY <1>4, <1>5, <1>9, <2>3
        <3>2. info[s].guard \in Nat /\ info[s].guard <= allocs
            BY <1>9
        <3> QED BY <1>2, <1>3, <3>1, <3>2
    <2> QED BY <2>1, <2>2, <2>3
<1>13. accepted' = b \cup Waiting(i, entries)
    <2>1. Waiting(i, entries) = ({g} \cup {info[s].guard : s \in entries \ {r}}) \ {0}
        <3>1. {i[s].guard : s \in entries} = {g} \cup {info[s].guard : s \in entries \ {r}}
            BY <1>2, <1>4, <1>5, <1>9
        <3> QED BY <3>1 DEF Waiting
    <2>2. Waiting(info, entries)
             = ({info[r].guard} \cup {info[s].guard : s \in entries \ {r}}) \ {0}
        <3>1. {info[s].guard : s \in entries}
                 = {info[r].guard} \cup {info[s].guard : s \in entries \ {r}}
            BY <1>2
        <3> QED BY <3>1 DEF Waiting
    <2>3. accepted = called \cup Waiting(info, entries)
        BY DEF Accounted
    <2> QED BY <1>6, <1>7, <2>1, <2>2, <2>3
<1> QED BY <1>8, <1>9, <1>10, <1>11, <1>12, <1>13, MaintainAccounts

LEMMA AllocNewAccounts ==
    ASSUME Inv, Accounted, NEW min, NEW tag, NEW free \in BOOLEAN, NEW new \in Holds,
           AllocNew(min, tag, free, new)
    PROVE  Accounted'
<1> DEFINE g == Guard(free)
           gone == Old(info) \cup Unused(rc)
           kept == entries \ Old(info)
<1>1. PICK r \in Fresh :
          /\ entries' = kept \cup {r}
          /\ info' = [s \in Regions |->
                        IF s = r
                        THEN [size |-> min, tag |-> tag, age |-> 0, guard |-> g]
                        ELSE IF s \in gone THEN [info[s] EXCEPT !.guard = 0] ELSE info[s]]
    BY DEF AllocNew
<1>2. r \in Regions /\ r \notin entries /\ info \in [Regions -> Info] /\ allocs \in Nat
    BY DEF Fresh, Inv, TypeOK
<1>3. g \in {0, allocs + 1}
    BY DEF Guard
<1>4. accepted' = accepted \cup ({g} \ {0})
    BY <1>2 DEF AllocNew, Accept, Guard
<1>5. called' = called \cup Waiting(info, gone)
    BY DEF AllocNew, Waiting
<1>6. gone \in SUBSET entries /\ kept \in SUBSET entries /\ entries \ kept \subseteq gone
    BY DEF Old, Unused
<1>7. /\ entries \subseteq Regions /\ 0 \notin called
      /\ \A s \in entries : info[s].guard \in Nat /\ info[s].guard <= allocs
      /\ \A s, t \in entries : info[s].guard = info[t].guard => s = t \/ info[s].guard = 0
      /\ \A n \in called : n <= allocs
    BY GuardsDiffer DEF Inv, Guards
<1>8. info'[r].guard = g
    BY <1>1, <1>2
<1>9. /\ \A s \in kept : s \in gone => info'[s].guard = 0
      /\ \A s \in kept : s \notin gone => info'[s].guard = info[s].guard
    <2> SUFFICES ASSUME NEW s \in kept
                 PROVE  /\ s \in gone => info'[s].guard = 0
                        /\ s \notin gone => info'[s].guard = info[s].guard
        OBVIOUS
    <2>1. s \in Regions /\ s # r /\ info[s] \in Info
        BY <1>2, <1>7
    <2>2. info'[s] = IF s \in gone THEN [info[s] EXCEPT !.guard = 0] ELSE info[s]
        BY <1>1, <2>1
    <2> HIDE DEF gone, kept
    <2> QED BY <2>1, <2>2 DEF Info
<1>10. /\ accepted = called \cup Waiting(info, entries)
       /\ \A s \in entries : info[s].guard \notin called
    BY DEF Accounted
<1> HIDE DEF g, gone, kept
<1>11. /\ called \cup Waiting(info, entries) = called' \cup Waiting(info', kept)
       /\ \A s \in kept : info'[s].guard \notin called'
    <2>1. Sweeps(entries, info, called, gone, kept, info', called')
        BY <1>5, <1>6, <1>7, <1>9, <1>10 DEF Sweeps
    <2> QED BY <2>1, SweepAccounts
<1>12. Waiting(info', entries') = Waiting(info', kept) \cup ({g} \ {0})
    <2>1. {info'[s].guard : s \in entries'} = {info'[s].guard : s \in kept} \cup {g}
        BY <1>1, <1>8
    <2> QED BY <2>1 DEF Waiting
<1>13. g \notin called'
    <2>1. \A n \in called' : n <= allocs /\ n # 0
        BY <1>5, <1>6, <1>7 DEF Waiting
    <2> QED BY <1>2, <1>3, <2>1
<1>14. accepted' = called' \cup Waiting(info', entries')
    BY <1>4, <1>10, <1>11, <1>12
<1>15. \A s \in entries' : info'[s].guard \notin called'
    BY <1>1, <1>8, <1>11, <1>13
<1> QED BY <1>14, <1>15 DEF Accounted, Waiting

\* Nothing is called or replaced.
LEMMA SameAccounts ==
    ASSUME Accounted, UNCHANGED <<entries, accepted, called>>,
           \A r \in entries : info'[r].guard = info[r].guard
    PROVE  Accounted'
BY DEF Accounted, Waiting

LEMMA CallMaintainAccounts ==
    ASSUME Inv, Accounted, Maintain(info, rc, called), UNCHANGED accepted
    PROVE  Accounted'
<1>1. entries \subseteq Regions /\ \A r \in entries : info[r] \in Info
    BY DEF Inv, TypeOK
<1> QED BY <1>1, GuardsDiffer, MaintainAccounts DEF Accounted

LEMMA StepAccounts ==
    ASSUME Inv, Accounted, [Next]_vars PROVE Accounted'
<1>0. info \in [Regions -> Info] /\ entries \subseteq Regions
    BY DEF Inv, TypeOK
<1>1. CASE Sharing
    <2>1. UNCHANGED registryVars
        BY <1>1 DEF Sharing, Clone, Lend, Sent, NotSent, Receive, Drop, Settle, Lose, Crash
    <2> QED BY <2>1, SameAccounts DEF registryVars
<1>2. CASE Alloc
    <2>1. PICK min \in Sizes, tag \in Tags :
              \/ \E free \in BOOLEAN, new \in Holds :
                    Reuse(min, tag, free, new) \/ AllocNew(min, tag, free, new)
              \/ ReuseFails(min, tag) \/ AllocFails(min, tag)
        BY <1>2 DEF Alloc
    <2>2. CASE ReuseFails(min, tag)
        <3>1. PICK r \in Reusable(min, tag) : info' = [info EXCEPT ![r].age = 0]
            BY <2>2 DEF ReuseFails
        <3>2. \A s \in entries : info'[s].guard = info[s].guard
            BY <1>0, <3>1 DEF Info
        <3> QED BY <2>2, <3>2, SameAccounts DEF ReuseFails
    <2>3. CASE AllocFails(min, tag)
        BY <2>3, CallMaintainAccounts DEF AllocFails
    <2> QED BY <2>1, <2>2, <2>3, ReuseAccounts, AllocNewAccounts
<1>3. CASE CallMaintain
    BY <1>3, CallMaintainAccounts DEF CallMaintain
<1>4. CASE Tick
    <2>1. \A s \in entries : info'[s].guard = info[s].guard
        BY <1>0, <1>4 DEF Tick, Info
    <2> QED BY <1>4, <2>1, SameAccounts DEF Tick
<1>5. CASE UNCHANGED vars
    BY <1>5, SameAccounts DEF vars, registryVars
<1> QED BY <1>1, <1>2, <1>3, <1>4, <1>5 DEF Next

\* However entries are reused, swept and forgotten, a callback the registry took
\* waits in one entry or was called, never both, and none is thrown away.
THEOREM FreeAccountedAlways == Spec => []FreeAccounted
<1>1. Init => Accounted
    BY DEF Init, Accounted, Waiting
<1>2. Inv /\ Accounted /\ [Next]_vars => Accounted'
    BY StepAccounts
<1>3. Inv /\ Accounted => FreeAccounted
    BY GuardsDiffer DEF Accounted, Waiting, FreeAccounted
<1> QED BY <1>1, <1>2, <1>3, SpecInv, PTL DEF Spec
=============================================================================
