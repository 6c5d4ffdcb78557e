----------------------- MODULE ProviderRequestProofs -----------------------
(***************************************************************************)
(* What a request to a provider is made of, for any number of providers,   *)
(* models, announcements, sessions and messages: the model it goes to, and *)
(* the transcript, cut to that model's window.                             *)
(*                                                                         *)
(* What the operator chose stays chosen, and on a coordinator whose        *)
(* interceptors run one after another a request names a model of the       *)
(* provider it goes to.  The coordinator's copy of the selection is        *)
(* written key by key.  What is invariant is that it is one model's, or    *)
(* will be when the writes that an instance is in the middle of are made.  *)
(*                                                                         *)
(* A cut keeps the recent and the pinned messages and takes the oldest of  *)
(* the others, no more than it must; and a request carries the transcript  *)
(* of its own turn, although the engine's replies name no request.  What   *)
(* is invariant is that a wait is longer than what is left for the engine  *)
(* to do, so that no reply is on its way when there is no wait.            *)
(***************************************************************************)
EXTENDS ModelSelection, ContextCompaction, FiniteSetTheorems, SequenceTheorems,
        NaturalsInduction, TLAPS

-----------------------------------------------------------------------------
(* Induction, for a set of numbers, and what a discovery may find.         *)

LEMMA SetInduction ==
  ASSUME NEW T \in SUBSET Nat, 0 \in T, \A n \in T : n + 1 \in T
  PROVE  T = Nat
<1> DEFINE R == OpToRel(<, Nat)
<1> SUFFICES ASSUME Nat \ T # {}
             PROVE  FALSE
  OBVIOUS
<1>1. PICK n \in Nat \ T : \A m \in Nat \ T : <<m, n>> \notin R
  <2>1. IsWellFoundedOn(R, Nat)
    BY NatLessThanWellFounded
  <2> HIDE DEF R
  <2> QED BY <2>1, WFMin
<1>2. n - 1 \in Nat /\ n - 1 < n /\ (n - 1) + 1 = n
  OBVIOUS
<1>3. n - 1 \notin T
  BY <1>2
<1>4. <<n - 1, n>> \in R
  BY <1>2 DEF OpToRel
<1> QED BY <1>1, <1>2, <1>3, <1>4

\* Some sequences, one after another, are a sequence.
LEMMA FlattenIsSeq ==
  ASSUME NEW S, NEW ss \in Seq(Seq(S))
  PROVE  FlattenSeq(ss) \in Seq(S)
<1>1. CASE Len(ss) = 0
  <2>1. ss = <<>>
    BY <1>1, EmptySeq
  <2> QED BY <1>1, <2>1 DEF FlattenSeq
<1>2. CASE Len(ss) # 0
  <2>1. PICK N \in Nat \ {0} : N = Len(ss)
    BY <1>2
  <2> DEFINE Flat(h, i) == IF i = 1 THEN ss[i] ELSE h[i - 1] \o ss[i]
             Flattens(n) ==
               \E h \in [1 .. n + 1 -> Seq(S)] : \A i \in 1 .. n + 1 : h[i] = Flat(h, i)
             T == {n \in Nat : n + 1 <= N => Flattens(n)}
  <2>2. \A i \in 1 .. N : ss[i] \in Seq(S)
    BY <2>1
  <2>3. Flattens(0)
    <3>1. PICK h : h = [i \in 1 .. 1 |-> ss[i]]
      OBVIOUS
    <3>2. h \in [1 .. 0 + 1 -> Seq(S)] /\ \A i \in 1 .. 0 + 1 : h[i] = Flat(h, i)
      BY <2>2, <3>1
    <3> QED BY <3>2
  <2>4. ASSUME NEW n \in Nat, n + 2 <= N, Flattens(n)
        PROVE  Flattens(n + 1)
    <3>1. PICK g \in [1 .. n + 1 -> Seq(S)] : \A i \in 1 .. n + 1 : g[i] = Flat(g, i)
      BY <2>4
    <3>2. PICK s \in Seq(S) : s = g[n + 1] \o ss[n + 2]
      <4>1. n + 1 \in 1 .. n + 1 /\ n + 2 \in 1 .. N
        BY <2>4
      <4>2. g[n + 1] \in Seq(S) /\ ss[n + 2] \in Seq(S)
        BY <2>2, <4>1
      <4> QED BY <4>2, ConcatProperties
    <3>3. PICK h : h = [i \in 1 .. n + 2 |-> IF i = n + 2 THEN s ELSE g[i]]
      OBVIOUS
    <3>4. h \in [1 .. n + 2 -> Seq(S)]
      BY <3>3
    <3>5. ASSUME NEW i \in 1 .. n + 2
          PROVE  h[i] = Flat(h, i)
      <4>1. CASE i = n + 2
        <5>1. i # 1 /\ i - 1 = n + 1 /\ h[n + 1] = g[n + 1]
          BY <3>3, <4>1
        <5> QED BY <3>2, <3>3, <4>1, <5>1
      <4>2. CASE i # n + 2
        <5>1. i \in 1 .. n + 1 /\ h[i] = g[i] /\ (i # 1 => h[i - 1] = g[i - 1])
          BY <3>3, <4>2
        <5> QED BY <3>1, <5>1
      <4> QED BY <4>1, <4>2
    <3>6. (n + 1) + 1 = n + 2
      OBVIOUS
    <3> QED BY <3>4, <3>5, <3>6
  <2>5. T = Nat
    <3> HIDE DEF Flattens
    <3>1. T \in SUBSET Nat /\ 0 \in T
      BY <2>3
    <3>2. ASSUME NEW n \in T
          PROVE  n + 1 \in T
      <4>1. n + 1 \in Nat /\ ((n + 1) + 1 <= N => n + 2 <= N /\ n + 1 <= N)
        OBVIOUS
      <4> QED BY <2>4, <4>1
    <3> HIDE DEF T
    <3> QED BY <3>1, <3>2, SetInduction
  <2>6. PICK h \in [1 .. N -> Seq(S)] : \A i \in 1 .. N : h[i] = Flat(h, i)
    <3>1. N - 1 \in Nat /\ (N - 1) + 1 = N
      OBVIOUS
    <3>2. Flattens(N - 1)
      <4> HIDE DEF Flattens
      <4> QED BY <2>5, <3>1
    <3> QED BY <3>1, <3>2
  <2> DEFINE F == CHOOSE f : f = [i \in 1 .. Len(ss) |-> Flat(f, i)]
             U == {n \in Nat : n + 1 <= N => F[n + 1] \in Seq(S)}
  <2> HIDE DEF T, U
  <2>7. F = [i \in 1 .. N |-> Flat(F, i)]
    <3>1. h = [i \in 1 .. Len(ss) |-> Flat(h, i)]
      BY <2>1, <2>6
    <3> QED BY <2>1, <3>1
  <2>8. FlattenSeq(ss) = F[N]
    BY <1>2, <2>1 DEF FlattenSeq
  <2> HIDE DEF F
  <2> USE DEF U
  <2>9. 0 \in U
    <3>1. F[1] = ss[1] /\ ss[1] \in Seq(S)
      BY <2>2, <2>7
    <3> QED BY <3>1
  <2>10. ASSUME NEW n \in U
         PROVE  n + 1 \in U
    <3> SUFFICES ASSUME n + 2 <= N
                 PROVE  F[n + 2] \in Seq(S)
      OBVIOUS
    <3>1. n + 2 \in 1 .. N /\ n + 2 # 1 /\ (n + 2) - 1 = n + 1
      OBVIOUS
    <3>2. F[n + 2] = F[n + 1] \o ss[n + 2]
      BY <2>7, <3>1
    <3>3. F[n + 1] \in Seq(S) /\ ss[n + 2] \in Seq(S)
      BY <2>2, <3>1
    <3> QED BY <3>2, <3>3, ConcatProperties
  <2>11. U = Nat
    <3>1. U \in SUBSET Nat
      OBVIOUS
    <3> HIDE DEF U
    <3> QED BY <2>9, <2>10, <3>1, SetInduction
  <2>12. \A n \in Nat : n + 1 <= N => F[n + 1] \in Seq(S)
    BY <2>11
  <2>13. N - 1 \in Nat /\ (N - 1) + 1 = N /\ (N - 1) + 1 <= N
    OBVIOUS
  <2>14. F[(N - 1) + 1] \in Seq(S)
    BY <2>12, <2>13
  <2> QED BY <2>8, <2>13, <2>14
<1> QED BY <1>1, <1>2

\* A discovery finds models.
LEMMA FoundAreModels ==
  ASSUME NEW found \in Found
  PROVE  found \in Seq(Model)
<1>0. PICK who \in SUBSET Capsule : \E answers \in SetToSeqs(who) :
        found = FlattenSeq([i \in DOMAIN answers |-> Offer[answers[i]]])
  BY DEF Found
<1>1. PICK answers \in SetToSeqs(who) :
        found = FlattenSeq([i \in DOMAIN answers |-> Offer[answers[i]]])
  BY <1>0
<1>2. PICK n \in Nat : answers \in [1 .. n -> who]
  <2>1. Cardinality(who) \in Nat
    BY ConstantsAssumption, FS_Subset, FS_CardinalityType
  <2> QED BY <2>1 DEF SetToSeqs
<1>3. \A i \in 1 .. n : Offer[answers[i]] \in Seq(Model)
  BY <1>2, ConstantsAssumption
<1>4. [i \in DOMAIN answers |-> Offer[answers[i]]] \in Seq(Seq(Model))
  BY <1>2, <1>3
<1> QED BY <1>1, <1>4, FlattenIsSeq

-----------------------------------------------------------------------------
(* The invariant.                                                          *)

\* The coordinator's interceptors run one after another.
OneInstance == \A v, w \in Worker : v = w

Registered == [providers : Seq(Model), active : {None} \cup Model \cup Capsule]
Announcement == Model \cup {None}
Handled == [state : Registered, out : Seq(Announcement)]
Values  == Capsule \cup Model \cup {Limits[m] : m \in Model} \cup {None}
Puts    == [key : Key, val : Values]

RegistryGood == store \in Registered /\ events \in Seq(Announcement)

\* The operator's choice is selected, and was found if anything was.
Holds(s, m) == s.active = m /\ (s.providers = <<>> \/ m \in Range(s.providers))
ChoiceGood  == chosen # None /\ ~missed => chosen \in Model /\ Holds(store, chosen)

\* A copy that is one model's, or nobody's.
Blank(c)    == \A k \in Key : c[k] = None
Fits(c, m)  == c.topic = Topic(m) /\ c.model = m /\ c.limits \in {None, Limits[m]}
Coherent(c) == Blank(c) \/ \E m \in Model : Fits(c, m)

\* What the copy will be when some writes are made.
WillBe(copy, todo, c) ==
  \A k \in Key : /\ \A i \in DOMAIN todo : todo[i].key = k => todo[i].val = c[k]
                 /\ (\A i \in DOMAIN todo : todo[i].key # k) => copy[k] = c[k]

Sends(m) == [at |-> "send", topic |-> Topic(m), model |-> m]

\* What an instance is in the middle of: what it has read of the copy is what
\* the copy is, and the writes that it has not made yet leave one model's.
InstanceGood(copy, s) ==
  \/ s = Idle /\ Coherent(copy)
  \/ \E m \in Model : Fits(copy, m) /\ s = [at |-> "read", topic |-> Topic(m)]
  \/ \E m \in Model : Fits(copy, m) /\ s = Sends(m)
  \/ /\ Blank(copy)
     /\ \E reply \in {<<>>} \cup {<<m>> : m \in Announcement} : s = [at |-> "fetch", reply |-> reply]
  \/ /\ s = [at |-> "write", todo |-> s.todo, then |-> s.then]
     /\ s.todo \in Seq(Puts) /\ s.todo # <<>>
     /\ \E c \in [Key -> Values] :
          /\ WillBe(copy, s.todo, c)
          /\ \/ s.then = Idle /\ Coherent(c)
             \/ \E m \in Model : Fits(c, m) /\ s.then = Sends(m)

CopyGood ==
  /\ cache = [k \in Key |-> cache[k]]
  /\ worker = [w \in Worker |-> worker[w]]
  /\ \A w \in Worker : InstanceGood(cache, worker[w])

SelectionInv == RegistryGood /\ ChoiceGood
RequestInv   == SelectionInv /\ CopyGood /\ RequestsFit

-----------------------------------------------------------------------------
(* The registry's handlers.                                                *)

LEMMA MinIsOneOf ==
  ASSUME NEW S \in SUBSET Nat, S # {}
  PROVE  Min(S) \in S
<1> DEFINE R == OpToRel(<, Nat)
<1>1. PICK n \in S : \A m \in S : <<m, n>> \notin R
  <2>1. IsWellFoundedOn(R, Nat)
    BY NatLessThanWellFounded
  <2> HIDE DEF R
  <2> QED BY <2>1, WFMin
<1>2. ASSUME NEW m \in S
      PROVE  n <= m
  <2>1. SUFFICES ASSUME m < n
                 PROVE  FALSE
    OBVIOUS
  <2>2. <<m, n>> \in R
    BY <2>1 DEF OpToRel
  <2> QED BY <1>1, <2>2
<1> QED BY <1>2 DEF Min

LEMMA HandlingIsHandled ==
  ASSUME NEW s \in Registered
  PROVE  Handling(s) \in Handled /\ Handling(s).state = s
BY DEF Handling, Handled

LEMMA ChosenIsHandled ==
  ASSUME NEW h \in Handled, NEW m \in Announcement
  PROVE  /\ Chosen(h, m) \in Handled
         /\ Chosen(h, m).state.active = m
         /\ Chosen(h, m).state.providers = h.state.providers
<1>1. Append(h.out, m) \in Seq(Announcement)
  BY DEF Handled
<1>2. h.state \in Registered
  BY DEF Handled
<1>3. /\ [h.state EXCEPT !.active = m] \in Registered
      /\ [h.state EXCEPT !.active = m].active = m
      /\ [h.state EXCEPT !.active = m].providers = h.state.providers
  BY <1>2 DEF Registered, Announcement
<1> QED BY <1>1, <1>3 DEF Chosen, Handled

LEMMA RefreshedIsHandled ==
  ASSUME NEW h \in Handled, NEW found \in Seq(Model)
  PROVE  /\ Refreshed(h, found) \in Handled
         /\ Refreshed(h, found).state.active = h.state.active
         /\ Refreshed(h, found).state.providers
              = (IF found = <<>> THEN h.state.providers ELSE found)
<1>1. CASE found = <<>>
  BY <1>1 DEF Refreshed
<1>2. CASE found # <<>>
  <2>1. h = [state |-> h.state, out |-> h.out] /\ h.state \in Registered /\ h.out \in Seq(Announcement)
    BY DEF Handled
  <2>2. Refreshed(h, found) = [state |-> [h.state EXCEPT !.providers = found], out |-> h.out]
    BY <1>2, <2>1 DEF Refreshed
  <2>3. /\ [h.state EXCEPT !.providers = found] \in Registered
        /\ [h.state EXCEPT !.providers = found].active = h.state.active
        /\ [h.state EXCEPT !.providers = found].providers = found
    BY <2>1 DEF Registered
  <2>4. Refreshed(h, found).state = [h.state EXCEPT !.providers = found]
    BY <2>2
  <2>5. Refreshed(h, found) \in Handled
    BY <2>1, <2>2, <2>3 DEF Handled
  <2> QED BY <1>2, <2>3, <2>4, <2>5
<1> QED BY <1>1, <1>2

LEMMA ReconciledIsHandled ==
  ASSUME NEW h \in Handled
  PROVE  /\ Reconciled(h) \in Handled
         /\ Reconciled(h).state.providers = h.state.providers
         /\ \A m \in Model : Holds(h.state, m) => Reconciled(h) = h
<1> DEFINE known  == h.state.providers
           id     == h.state.active
           routed == {i \in DOMAIN known : Topic(known[i]) = id}
<1>0. known \in Seq(Model)
  BY DEF Handled, Registered
<1>1. ASSUME routed # {}
      PROVE  known[Min(routed)] \in Announcement
  <2>1. routed \in SUBSET Nat
    BY <1>0
  <2>2. Min(routed) \in routed
    <3> HIDE DEF routed
    <3> QED BY <1>1, <2>1, MinIsOneOf
  <2>3. Min(routed) \in DOMAIN known
    <3> HIDE DEF known
    <3> QED BY <2>2
  <2>4. known[Min(routed)] \in Model
    <3> HIDE DEF known, routed
    <3> QED BY <1>0, <2>3
  <2> QED BY <2>4 DEF Announcement
<1>2. \A m \in Model : Holds(h.state, m) => known = <<>> \/ id \in Range(known)
  BY DEF Holds
<1> DEFINE first == known[Min(routed)]
           quiet == id = None \/ known = <<>> \/ id \in Range(known)
<1>3. /\ quiet => Reconciled(h) = h
      /\ ~quiet /\ routed # {} => Reconciled(h) = Chosen(h, first)
      /\ ~quiet /\ routed = {} => Reconciled(h) = Chosen(h, None)
  BY DEF Reconciled
<1>4. None \in Announcement
  BY DEF Announcement
<1>5. \A m \in Model : Holds(h.state, m) => quiet
  BY <1>2
<1>7. routed # {} => first \in Announcement
  BY <1>1
<1> HIDE DEF first, routed, quiet
<1>8. CASE quiet
  <2>1. Reconciled(h) = h
    BY <1>3, <1>8
  <2> QED BY <2>1
<1>9. CASE ~quiet /\ routed # {}
  <2>1. Reconciled(h) = Chosen(h, first)
    BY <1>3, <1>9
  <2> QED BY <1>5, <1>7, <1>9, <2>1, ChosenIsHandled
<1>10. CASE ~quiet /\ routed = {}
  <2>1. Reconciled(h) = Chosen(h, None)
    BY <1>3, <1>10
  <2> QED BY <1>4, <1>5, <1>10, <2>1, ChosenIsHandled
<1> QED BY <1>8, <1>9, <1>10

LEMMA DefaultedIsHandled ==
  ASSUME NEW h \in Handled
  PROVE  /\ Defaulted(h) \in Handled
         /\ Defaulted(h).state.providers = h.state.providers
         /\ \A m \in Model : Holds(h.state, m) => Defaulted(h) = h
<1>1. CASE h.state.active # None /\ Defaulted(h) = h
  BY <1>1
<1>2. CASE h.state.providers = <<>>
  BY <1>2 DEF Defaulted
<1>3. CASE h.state.active = None /\ h.state.providers # <<>>
  <2>1. h.state.providers[1] \in Announcement
    BY <1>3 DEF Handled, Registered, Announcement
  <2>2. \A m \in Model : ~Holds(h.state, m)
    BY <1>3, ConstantsAssumption DEF Holds
  <2> QED BY <1>3, <2>1, <2>2, ChosenIsHandled DEF Defaulted
<1> QED BY <1>1, <1>2, <1>3 DEF Defaulted

LEMMA ClearedIsHandled ==
  ASSUME NEW h \in Handled
  PROVE  Cleared(h) \in Handled
<1>1. None \in Announcement
  BY DEF Announcement
<1> QED BY <1>1, ChosenIsHandled DEF Cleared

\* A list that is discovered only if there is none.
LEMMA KnownAreHandled ==
  ASSUME NEW s \in Registered, NEW known \in Known(Handling(s))
  PROVE  /\ known \in Handled /\ known.state.active = s.active
         /\ known.state.providers = s.providers \/ s.providers = <<>>
<1>1. Handling(s) \in Handled /\ Handling(s).state = s
  BY HandlingIsHandled
<1>2. \E found \in (IF s.providers = <<>> THEN Found ELSE {<<>>}) :
        known = Refreshed(Handling(s), found)
  BY <1>1 DEF Known
<1>3. PICK found : /\ known = Refreshed(Handling(s), found)
                   /\ (found \in Found /\ s.providers = <<>>) \/ found = <<>>
  BY <1>2
<1>4. found \in Seq(Model)
  <2>1. CASE found \in Found
    BY <2>1, FoundAreModels
  <2>2. CASE found = <<>>
    BY <2>2
  <2> QED BY <1>3, <2>1, <2>2
<1> QED BY <1>1, <1>3, <1>4, RefreshedIsHandled

\* What a resolution finds is a model of the list.
LEMMA ResolvedIsKnown ==
  ASSUME NEW input, NEW known \in Seq(Model), NEW m \in Resolved(input, known)
  PROVE  m \in Model /\ m \in Range(known)
<1>1. m \in Range(known)
  BY DEF Resolved
<1> QED BY <1>1 DEF Range

-----------------------------------------------------------------------------
(* The operator's choice.                                                  *)

LEMMA DoneKeeps ==
  ASSUME RegistryGood, NEW h \in Handled, Done(h)
  PROVE  RegistryGood'
<1>1. h.state \in Registered /\ h.out \in Seq(Announcement)
  BY DEF Handled
<1>2. events \o h.out \in Seq(Announcement)
  BY <1>1, ConcatProperties DEF RegistryGood
<1> QED BY <1>1, <1>2 DEF RegistryGood, Done

\* A discovery that leaves nothing missed has found the choice, or nothing.
LEMMA SeenKeeps ==
  ASSUME SelectionInv, NEW h \in Handled, NEW found \in Seq(Model),
         h.state.active = store.active,
         h.state.providers = store.providers \/ found = h.state.providers,
         Seen(found, chosen), chosen # None, ~missed'
  PROVE  chosen \in Model /\ Holds(h.state, chosen)
<1>1. chosen \in Model /\ Holds(store, chosen) /\ (found = <<>> \/ chosen \in Range(found))
  BY DEF SelectionInv, ChoiceGood, Seen
<1> QED BY <1>1 DEF Holds

LEMMA HealedHolds ==
  ASSUME NEW h \in Handled, NEW m \in Model, Holds(h.state, m)
  PROVE  Reconciled(h) = h /\ Defaulted(h) = h /\ Defaulted(Reconciled(h)) = h
<1>1. Reconciled(h) = h
  BY ReconciledIsHandled
<1>2. Defaulted(h) = h
  BY DefaultedIsHandled
<1> QED BY <1>1, <1>2

\* A handler that ends in a state that holds the choice.
LEMMA ChoiceStays ==
  ASSUME SelectionInv, NEW h \in Handled, NEW g \in Handled, NEW found \in Seq(Model),
         h.state.active = store.active,
         h.state.providers = store.providers \/ found = h.state.providers,
         Seen(found, chosen), UNCHANGED chosen, Done(g),
         \A m \in Model : Holds(h.state, m) => g = h
  PROVE  SelectionInv'
<1>1. RegistryGood'
  BY DoneKeeps DEF SelectionInv
<1>2. ASSUME chosen # None, ~missed'
      PROVE  chosen \in Model /\ Holds(store', chosen)
  <2>1. chosen \in Model /\ Holds(h.state, chosen)
    BY <1>2, SeenKeeps
  <2> QED BY <2>1 DEF Done
<1> QED BY <1>1, <1>2 DEF SelectionInv, ChoiceGood, Holds

LEMMA DiscoveryKeeps ==
  ASSUME SelectionInv, Startup \/ CapsulesLoaded
  PROVE  SelectionInv'
<1>1. PICK found \in Found :
        /\ Done(Defaulted(Reconciled(Refreshed(Handling(store), found))))
        /\ Seen(found, chosen) /\ UNCHANGED chosen
  BY DEF Startup, CapsulesLoaded
<1>2. found \in Seq(Model) /\ store \in Registered
  BY FoundAreModels DEF SelectionInv, RegistryGood
<1>3. PICK h \in Handled : /\ h = Refreshed(Handling(store), found)
                           /\ h.state.active = store.active
                           /\ h.state.providers = store.providers \/ found = h.state.providers
  BY <1>2, HandlingIsHandled, RefreshedIsHandled
<1>4. Reconciled(h) \in Handled
  BY ReconciledIsHandled
<1>5. PICK g \in Handled : g = Defaulted(Reconciled(h))
  BY <1>4, DefaultedIsHandled
<1>6. \A m \in Model : Holds(h.state, m) => g = h
  BY <1>5, HealedHolds
<1>7. Done(g)
  BY <1>1, <1>3, <1>5
<1> QED BY <1>1, <1>2, <1>3, <1>6, <1>7, ChoiceStays

LEMMA GetProvidersKeeps ==
  ASSUME SelectionInv, GetProviders
  PROVE  SelectionInv'
<1>1. PICK found \in Found :
        Done(Refreshed(Handling(store), found)) /\ Seen(found, chosen) /\ UNCHANGED chosen
  BY DEF GetProviders
<1>2. found \in Seq(Model) /\ store \in Registered
  BY FoundAreModels DEF SelectionInv, RegistryGood
<1>3. PICK h \in Handled : /\ h = Refreshed(Handling(store), found)
                           /\ h.state.active = store.active
                           /\ h.state.providers = store.providers \/ found = h.state.providers
  BY <1>2, HandlingIsHandled, RefreshedIsHandled
<1>4. Done(h)
  BY <1>1, <1>3
<1> QED BY <1>1, <1>2, <1>3, <1>4, ChoiceStays

\* The list that a handler works from, with what it has seen of it.
LEMMA KnownIsSeen ==
  ASSUME RegistryGood, NEW known \in Known(Handling(store))
  PROVE  /\ known \in Handled /\ known.state.active = store.active
         /\ known.state.providers \in Seq(Model)
<1>1. store \in Registered
  BY DEF RegistryGood
<1>2. known \in Handled /\ known.state.active = store.active
  BY <1>1, KnownAreHandled
<1> QED BY <1>2 DEF Handled, Registered

LEMMA GetActiveModelKeeps ==
  ASSUME SelectionInv, GetActiveModel
  PROVE  SelectionInv'
<1>1. PICK known \in Known(Handling(store)) :
        /\ Done(Defaulted(Reconciled(known)))
        /\ Seen(known.state.providers, chosen) /\ UNCHANGED chosen
  BY DEF GetActiveModel
<1>2. /\ known \in Handled /\ known.state.active = store.active
      /\ known.state.providers \in Seq(Model)
  BY KnownIsSeen DEF SelectionInv
<1>3. Reconciled(known) \in Handled
  BY <1>2, ReconciledIsHandled
<1>4. PICK g \in Handled : g = Defaulted(Reconciled(known))
  BY <1>3, DefaultedIsHandled
<1>5. \A m \in Model : Holds(known.state, m) => g = known
  BY <1>2, <1>4, HealedHolds
<1> QED BY <1>1, <1>2, <1>4, <1>5, ChoiceStays

LEMMA CliShowKeeps ==
  ASSUME SelectionInv, CliShow
  PROVE  SelectionInv'
<1>1. PICK known \in Known(Handling(store)) :
        /\ Done(Reconciled(known))
        /\ Seen(known.state.providers, chosen) /\ UNCHANGED chosen
  BY DEF CliShow
<1>2. /\ known \in Handled /\ known.state.active = store.active
      /\ known.state.providers \in Seq(Model)
  BY KnownIsSeen DEF SelectionInv
<1>3. PICK g \in Handled : g = Reconciled(known)
  BY <1>2, ReconciledIsHandled
<1>4. \A m \in Model : Holds(known.state, m) => g = known
  BY <1>2, <1>3, HealedHolds
<1> QED BY <1>1, <1>2, <1>3, <1>4, ChoiceStays

\* A choice that was resolved holds.
LEMMA SelectedHolds ==
  ASSUME RegistryGood, NEW h \in Handled, NEW m \in Model, m \in Range(h.state.providers),
         Done(Chosen(h, m)), chosen' = m
  PROVE  SelectionInv'
<1>1. m \in Announcement
  BY DEF Announcement
<1>2. PICK g \in Handled : /\ g = Chosen(h, m) /\ g.state.active = m
                           /\ g.state.providers = h.state.providers
  BY <1>1, ChosenIsHandled
<1>3. Done(g)
  BY <1>2
<1>4. RegistryGood'
  BY <1>3, DoneKeeps
<1>5. Holds(store', m)
  BY <1>2, <1>3 DEF Holds, Done
<1> QED BY <1>4, <1>5 DEF SelectionInv, ChoiceGood, Holds

LEMMA SetActiveModelKeeps ==
  ASSUME SelectionInv, NEW input, SetActiveModel(input)
  PROVE  SelectionInv'
<1>1. PICK known \in Known(Handling(store)) : \E m \in Model :
        /\ m \in Resolved(input, known.state.providers)
        /\ Done([Chosen(known, m) EXCEPT !.state.active = m]) /\ chosen' = m
  BY DEF SetActiveModel, Stored
<1>2. PICK m \in Model :
        /\ m \in Resolved(input, known.state.providers)
        /\ Done([Chosen(known, m) EXCEPT !.state.active = m]) /\ chosen' = m
  BY <1>1
<1>3. known \in Handled /\ known.state.providers \in Seq(Model)
  BY KnownIsSeen DEF SelectionInv
<1>4. m \in Range(known.state.providers)
  BY <1>2, <1>3, ResolvedIsKnown
<1>5. [Chosen(known, m) EXCEPT !.state.active = m] = Chosen(known, m)
  <2>1. m \in Announcement
    BY DEF Announcement
  <2>2. Chosen(known, m) \in Handled /\ Chosen(known, m).state.active = m
    BY <1>3, <2>1, ChosenIsHandled
  <2> QED BY <2>2 DEF Handled, Registered
<1>6. Done(Chosen(known, m))
  BY <1>2, <1>5
<1> QED BY <1>2, <1>3, <1>4, <1>6, SelectedHolds DEF SelectionInv

LEMMA CliSetKeeps ==
  ASSUME SelectionInv, NEW input, CliSet(input)
  PROVE  SelectionInv'
<1>1. PICK known \in Known(Handling(store)) : \E m \in Model :
        /\ m \in Resolved(input, known.state.providers)
        /\ Done(Chosen(Reconciled(known), m)) /\ chosen' = m
  BY DEF CliSet
<1>2. PICK m \in Model :
        /\ m \in Resolved(input, known.state.providers)
        /\ Done(Chosen(Reconciled(known), m)) /\ chosen' = m
  BY <1>1
<1>3. known \in Handled /\ known.state.providers \in Seq(Model)
  BY KnownIsSeen DEF SelectionInv
<1>4. m \in Range(known.state.providers)
  BY <1>2, <1>3, ResolvedIsKnown
<1>5. Reconciled(known) \in Handled /\ Reconciled(known).state.providers = known.state.providers
  BY <1>3, ReconciledIsHandled
<1> QED BY <1>2, <1>4, <1>5, SelectedHolds DEF SelectionInv

LEMMA CliUnsetKeeps ==
  ASSUME SelectionInv, CliUnset
  PROVE  SelectionInv'
<1>1. Handling(store) \in Handled
  BY HandlingIsHandled DEF SelectionInv, RegistryGood
<1>2. Cleared(Reconciled(Handling(store))) \in Handled
  BY <1>1, ReconciledIsHandled, ClearedIsHandled
<1>3. RegistryGood'
  BY <1>2, DoneKeeps DEF CliUnset, SelectionInv
<1> QED BY <1>3 DEF CliUnset, SelectionInv, ChoiceGood

LEMMA SelectionHolds == Spec => []SelectionInv
<1>1. Init => SelectionInv
  <2> SUFFICES ASSUME Init
               PROVE  SelectionInv
    OBVIOUS
  <2>1. store \in Registered /\ store.providers = <<>>
    <3>1. store \in [providers : {<<>>}, active : {None} \cup Model \cup Capsule]
      BY DEF Init
    <3>2. <<>> \in Seq(Model)
      OBVIOUS
    <3> QED BY <3>1, <3>2 DEF Registered
  <2>2. ChoiceGood
    BY <2>1 DEF Init, ChoiceGood, Holds
  <2> QED BY <2>1, <2>2 DEF Init, SelectionInv, RegistryGood
<1>2. SelectionInv /\ [Next]_vars => SelectionInv'
  <2> SUFFICES ASSUME SelectionInv, [Next]_vars
               PROVE  SelectionInv'
    OBVIOUS
  <2>1. CASE Registry
    BY <2>1, DiscoveryKeeps, GetProvidersKeeps, GetActiveModelKeeps, SetActiveModelKeeps,
       CliShowKeeps, CliSetKeeps, CliUnsetKeeps DEF Registry
  <2>2. ASSUME NEW w \in Worker, ModelChanged(w)
        PROVE  SelectionInv'
    <3>1. events' \in Seq(Announcement)
      BY <2>2 DEF ModelChanged, SelectionInv, RegistryGood
    <3> QED BY <2>2, <3>1 DEF ModelChanged, SelectionInv, RegistryGood, ChoiceGood, Holds
  <2>3. ASSUME UNCHANGED <<store, events, chosen, missed>>
        PROVE  SelectionInv'
    BY <2>3 DEF SelectionInv, RegistryGood, ChoiceGood, Holds
  <2>4. ASSUME NEW w \in Worker, ActiveLlm(w) \/ Step(w)
        PROVE  UNCHANGED <<store, events, chosen, missed>>
    BY <2>4 DEF ActiveLlm, Step, Write, ReadModel, FetchEnds, PublishLlmRequest
  <2> QED BY <2>1, <2>2, <2>3, <2>4 DEF Next, vars
<1> QED BY <1>1, <1>2, PTL DEF Spec

\* What the operator selected stays selected until a discovery finds other
\* models and not that one, however many requests and announcements there are
\* and whatever the order in which capsules answer
\* (reconcile_active_model_in_place, set_active_model_by_id).
THEOREM ChoicesKept == Spec => []ChoiceKept
<1>1. SelectionInv => ChoiceKept
  BY DEF SelectionInv, ChoiceGood, Holds, ChoiceKept
<1> QED BY <1>1, SelectionHolds, PTL

-----------------------------------------------------------------------------
(* The coordinator's copy, on one instance.                                *)

LEMMA TopicIsCapsule ==
  ASSUME NEW m \in Model
  PROVE  Topic(m) \in Capsule
<1> DEFINE S == {c \in Capsule : m \in Range(Offer[c])}
<1>1. Cardinality(S) = 1
  BY ConstantsAssumption
<1>2. S # {}
  <2> HIDE DEF S
  <2> QED BY <1>1, FS_EmptySet
<1> QED BY <1>2 DEF Topic

LEMMA KeysOfCopies == Key = {"topic", "model", "limits"} /\ "topic" \in Key
BY DEF Key

\* Of the instances only the one that took the step has changed.
LEMMA OthersAreNone ==
  ASSUME OneInstance, CopyGood, NEW w \in Worker, NEW v,
         worker' = [worker EXCEPT ![w] = v],
         cache' = [k \in Key |-> cache'[k]], InstanceGood(cache', v)
  PROVE  CopyGood'
<1>1. worker' = [u \in Worker |-> worker'[u]] /\ worker'[w] = v
  BY DEF CopyGood
<1>2. \A u \in Worker : u = w
  BY DEF OneInstance
<1>3. \A u \in Worker : InstanceGood(cache', worker'[u])
  BY <1>1, <1>2
<1> QED BY <1>1, <1>3 DEF CopyGood

\* What an instance is doing, by the name of it.
LEMMA InstanceIsAt ==
  ASSUME NEW copy, NEW s, InstanceGood(copy, s)
  PROVE  /\ s.at = "idle" => s = Idle /\ Coherent(copy)
         /\ s.at = "read" => \E m \in Model : Fits(copy, m) /\ s = [at |-> "read", topic |-> Topic(m)]
         /\ s.at = "send" => \E m \in Model : Fits(copy, m) /\ s = Sends(m)
         /\ s.at = "fetch" =>
              /\ Blank(copy)
              /\ \E reply \in {<<>>} \cup {<<m>> : m \in Announcement} : s = [at |-> "fetch", reply |-> reply]
         /\ s.at = "write" =>
              /\ s = [at |-> "write", todo |-> s.todo, then |-> s.then]
              /\ s.todo \in Seq(Puts) /\ s.todo # <<>>
              /\ \E c \in [Key -> Values] :
                   /\ WillBe(copy, s.todo, c)
                   /\ \/ s.then = Idle /\ Coherent(c)
                      \/ \E m \in Model : Fits(c, m) /\ s.then = Sends(m)
<1> HIDE DEF Coherent, Fits, Blank, WillBe
<1>1. CASE s = Idle /\ Coherent(copy)
  BY <1>1 DEF Idle
<1>2. CASE \E m \in Model : Fits(copy, m) /\ s = [at |-> "read", topic |-> Topic(m)]
  <2>1. s.at = "read"
    BY <1>2
  <2> QED BY <1>2, <2>1
<1>3. CASE \E m \in Model : Fits(copy, m) /\ s = Sends(m)
  <2>1. s.at = "send"
    BY <1>3 DEF Sends
  <2> QED BY <1>3, <2>1
<1> DEFINE Fetching == /\ Blank(copy)
                       /\ \E reply \in {<<>>} \cup {<<m>> : m \in Announcement} :
                            s = [at |-> "fetch", reply |-> reply]
           Writing == /\ s = [at |-> "write", todo |-> s.todo, then |-> s.then]
                      /\ s.todo \in Seq(Puts) /\ s.todo # <<>>
                      /\ \E c \in [Key -> Values] :
                           /\ WillBe(copy, s.todo, c)
                           /\ \/ s.then = Idle /\ Coherent(c)
                              \/ \E m \in Model : Fits(c, m) /\ s.then = Sends(m)
<1>4. CASE Fetching
  <2>1. s.at = "fetch"
    BY <1>4
  <2> HIDE DEF Fetching
  <2>2. Fetching /\ s.at # "idle" /\ s.at # "read" /\ s.at # "send" /\ s.at # "write"
    BY <1>4, <2>1
  <2> QED BY <2>2 DEF Fetching
<1>5. CASE Writing
  <2>1. s.at = "write"
    BY <1>5
  <2> HIDE DEF Writing
  <2>2. Writing /\ s.at # "idle" /\ s.at # "read" /\ s.at # "send" /\ s.at # "fetch"
    BY <1>5, <2>1
  <2> QED BY <2>2 DEF Writing
<1>6. \/ s = Idle /\ Coherent(copy)
      \/ \E m \in Model : Fits(copy, m) /\ s = [at |-> "read", topic |-> Topic(m)]
      \/ \E m \in Model : Fits(copy, m) /\ s = Sends(m)
      \/ Fetching \/ Writing
  BY DEF InstanceGood
<1> HIDE DEF Fetching, Writing
<1> QED BY <1>1, <1>2, <1>3, <1>4, <1>5, <1>6

\* The copies of nobody and of a model.
NoCopy  == [k \in Key |-> None]
Copy(m) == [k \in Key |-> IF k = "topic" THEN Topic(m) ELSE IF k = "model" THEN m ELSE Limits[m]]

LEMMA CopiesAreCoherent ==
  /\ NoCopy \in [Key -> Values] /\ Blank(NoCopy)
  /\ \A m \in Model : Copy(m) \in [Key -> Values] /\ Fits(Copy(m), m)
<1>1. NoCopy \in [Key -> Values] /\ Blank(NoCopy)
  BY DEF NoCopy, Blank, Values
<1>2. ASSUME NEW m \in Model
      PROVE  Copy(m) \in [Key -> Values] /\ Fits(Copy(m), m)
  <2>1. Topic(m) \in Values /\ m \in Values /\ Limits[m] \in Values
    BY TopicIsCapsule DEF Values
  <2>2. Copy(m) \in [Key -> Values]
    BY <2>1 DEF Copy
  <2>3. Copy(m).topic = Topic(m) /\ Copy(m).model = m /\ Copy(m).limits = Limits[m]
    BY DEF Copy, Key
  <2> QED BY <2>2, <2>3 DEF Fits
<1> QED BY <1>1, <1>2

\* What the writes of an announcement and of a reply leave.
LEMMA ForgottenLeaves ==
  ASSUME NEW copy
  PROVE  Forgotten \in Seq(Puts) /\ Forgotten # <<>> /\ WillBe(copy, Forgotten, NoCopy)
<1>1. \A k \in Key : [key |-> k, val |-> None] \in Puts
  BY DEF Puts, Values
<1>2. Forgotten \in Seq(Puts) /\ Forgotten # <<>>
  BY <1>1 DEF Forgotten, Put, Key
<1>3. ASSUME NEW k \in Key
      PROVE  /\ \A i \in DOMAIN Forgotten : Forgotten[i].key = k => Forgotten[i].val = NoCopy[k]
             /\ \E i \in DOMAIN Forgotten : Forgotten[i].key = k
  BY <1>3 DEF Forgotten, Put, Key, NoCopy
<1> QED BY <1>2, <1>3 DEF WillBe

LEMMA AnnouncedLeaves ==
  ASSUME NEW copy, NEW m \in Model
  PROVE  Announced(m) \in Seq(Puts) /\ Announced(m) # <<>> /\ WillBe(copy, Announced(m), Copy(m))
<1>1. \A k \in Key : [key |-> k, val |-> Copy(m)[k]] \in Puts
  BY CopiesAreCoherent DEF Puts
<1>2. Announced(m) = <<Put("topic", Copy(m)["topic"]), Put("model", Copy(m)["model"]),
                       Put("limits", Copy(m)["limits"])>>
  BY DEF Announced, Copy, Key
<1> HIDE DEF Copy
<1>3. Announced(m) \in Seq(Puts) /\ Announced(m) # <<>>
  BY <1>1, <1>2 DEF Put, Key
<1>4. ASSUME NEW k \in Key
      PROVE  /\ \A i \in DOMAIN Announced(m) : Announced(m)[i].key = k => Announced(m)[i].val = Copy(m)[k]
             /\ \E i \in DOMAIN Announced(m) : Announced(m)[i].key = k
  BY <1>2, <1>4 DEF Put, Key
<1> QED BY <1>3, <1>4 DEF WillBe

LEMMA TwoAndOne ==
  ASSUME NEW a, NEW b, NEW c
  PROVE  <<a, b>> \o <<c>> = <<a, b, c>>
<1> DEFINE S == {a, b, c}
           s == <<a, b>>
           t == <<c>>
           u == <<a, b, c>>
<1>1. /\ s \in Seq(S) /\ Len(s) = 2 /\ s[1] = a /\ s[2] = b
      /\ t \in Seq(S) /\ Len(t) = 1 /\ t[1] = c
      /\ u \in Seq(S) /\ Len(u) = 3 /\ u[1] = a /\ u[2] = b /\ u[3] = c
  OBVIOUS
<1> HIDE DEF s, t, u, S
<1>2. /\ s \o t \in Seq(S) /\ Len(s \o t) = 3
      /\ \A i \in 1 .. 3 : (s \o t)[i] = IF i <= 2 THEN s[i] ELSE t[i - 2]
  <2>1. /\ s \o t \in Seq(S) /\ Len(s \o t) = Len(s) + Len(t)
        /\ \A i \in 1 .. Len(s) + Len(t) :
             (s \o t)[i] = IF i <= Len(s) THEN s[i] ELSE t[i - Len(s)]
    BY <1>1, ConcatProperties
  <2> QED BY <1>1, <2>1
<1>3. \A i \in 1 .. 3 : (s \o t)[i] = u[i]
  <2>1. (s \o t)[1] = a /\ (s \o t)[2] = b /\ (s \o t)[3] = c
    BY <1>1, <1>2
  <2>2. \A i \in 1 .. 3 : i = 1 \/ i = 2 \/ i = 3
    OBVIOUS
  <2> QED BY <1>1, <2>1, <2>2
<1>4. s \o t = u
  BY <1>1, <1>2, <1>3, SeqEqual
<1> QED BY <1>4 DEF s, t, u

\* A reply is written over a copy of nobody.
LEMMA FetchedLeaves ==
  ASSUME NEW copy, Blank(copy), NEW m \in Model
  PROVE  Fetched(m) \in Seq(Puts) /\ Fetched(m) # <<>> /\ WillBe(copy, Fetched(m), Copy(m))
<1>1. \A k \in Key : [key |-> k, val |-> Copy(m)[k]] \in Puts
  BY CopiesAreCoherent DEF Puts
<1>2. CASE Limits[m] # None
  <2>1. Fetched(m) = Announced(m)
    BY <1>2, TwoAndOne DEF Fetched, Announced
  <2> QED BY <2>1, AnnouncedLeaves
<1>3. CASE Limits[m] = None
  <2>1. Fetched(m) = <<Put("topic", Copy(m)["topic"]), Put("model", Copy(m)["model"])>>
    BY <1>3 DEF Fetched, Copy, Key
  <2>2. Copy(m)["limits"] = copy["limits"]
    BY <1>3 DEF Copy, Key, Blank
  <2> HIDE DEF Copy
  <2>3. Fetched(m) \in Seq(Puts) /\ Fetched(m) # <<>>
    BY <1>1, <2>1 DEF Put, Key
  <2>4. ASSUME NEW k \in Key
        PROVE  /\ \A i \in DOMAIN Fetched(m) : Fetched(m)[i].key = k => Fetched(m)[i].val = Copy(m)[k]
               /\ (\A i \in DOMAIN Fetched(m) : Fetched(m)[i].key # k) => copy[k] = Copy(m)[k]
    BY <2>1, <2>2, <2>4 DEF Put, Key
  <2> QED BY <2>3, <2>4 DEF WillBe
<1> QED BY <1>2, <1>3

\* A write that leaves the rest to be written.
LEMMA WriteLeaves ==
  ASSUME NEW copy, copy = [k \in Key |-> copy[k]],
         NEW todo \in Seq(Puts), todo # <<>>, NEW c, WillBe(copy, todo, c),
         NEW next, next = [copy EXCEPT ![todo[1].key] = todo[1].val]
  PROVE  /\ next = [k \in Key |-> next[k]]
         /\ Tail(todo) \in Seq(Puts)
         /\ WillBe(next, Tail(todo), c)
         /\ DOMAIN Tail(todo) = 1 .. Len(todo) - 1
<1>1. /\ Tail(todo) \in Seq(Puts) /\ Len(todo) \in Nat \ {0} /\ DOMAIN todo = 1 .. Len(todo)
      /\ Len(Tail(todo)) = Len(todo) - 1 /\ DOMAIN Tail(todo) = 1 .. Len(todo) - 1
      /\ \A i \in 1 .. Len(todo) - 1 : Tail(todo)[i] = todo[i + 1]
  BY HeadTailProperties, EmptySeq
<1>2. ASSUME NEW k \in Key
      PROVE  /\ \A i \in DOMAIN Tail(todo) : Tail(todo)[i].key = k => Tail(todo)[i].val = c[k]
             /\ (\A i \in DOMAIN Tail(todo) : Tail(todo)[i].key # k) => next[k] = c[k]
  <2>1. /\ \A i \in DOMAIN todo : todo[i].key = k => todo[i].val = c[k]
        /\ (\A i \in DOMAIN todo : todo[i].key # k) => copy[k] = c[k]
    BY DEF WillBe
  <2>2. ASSUME NEW i \in DOMAIN Tail(todo), Tail(todo)[i].key = k
        PROVE  Tail(todo)[i].val = c[k]
    <3>1. i + 1 \in DOMAIN todo /\ Tail(todo)[i] = todo[i + 1]
      BY <1>1
    <3> QED BY <2>1, <2>2, <3>1
  <2>3. ASSUME \A i \in DOMAIN Tail(todo) : Tail(todo)[i].key # k
        PROVE  next[k] = c[k]
    <3>1. \A i \in DOMAIN todo : i # 1 => todo[i].key # k
      <4> SUFFICES ASSUME NEW i \in DOMAIN todo, i # 1
                   PROVE  todo[i].key # k
        OBVIOUS
      <4>1. i - 1 \in DOMAIN Tail(todo) /\ Tail(todo)[i - 1] = todo[(i - 1) + 1] /\ (i - 1) + 1 = i
        BY <1>1
      <4> QED BY <2>3, <4>1
    <3>2. 1 \in DOMAIN todo
      BY <1>1
    <3>3. CASE todo[1].key = k
      BY <2>1, <3>2, <3>3
    <3>4. CASE todo[1].key # k
      <4>1. \A i \in DOMAIN todo : todo[i].key # k
        BY <3>1, <3>4
      <4> QED BY <2>1, <3>4, <4>1
    <3> QED BY <3>3, <3>4
  <2> QED BY <2>2, <2>3
<1>3. next = [k \in Key |-> next[k]]
  OBVIOUS
<1> QED BY <1>1, <1>2, <1>3 DEF WillBe

LEMMA ModelChangedFits ==
  ASSUME OneInstance, RegistryGood, CopyGood, NEW w \in Worker, ModelChanged(w)
  PROVE  CopyGood'
<1>1. Head(events) \in Announcement
  BY DEF RegistryGood, ModelChanged
<1>2. Coherent(cache)
  BY InstanceIsAt DEF CopyGood, ModelChanged, At
<1>3. PICK todo : /\ todo = IF Head(events) = None THEN Forgotten ELSE Announced(Head(events))
                  /\ worker' = [worker EXCEPT ![w] = [at |-> "write", todo |-> todo, then |-> Idle]]
  <2>1. worker' = [worker EXCEPT ![w] = [at |-> "write", then |-> Idle,
            todo |-> IF Head(events) = None THEN Forgotten ELSE Announced(Head(events))]]
    BY DEF ModelChanged, Go
  <2> QED BY <2>1
<1>4. PICK s : s = [at |-> "write", todo |-> todo, then |-> Idle]
  OBVIOUS
<1>5. \E c \in [Key -> Values] :
        /\ todo \in Seq(Puts) /\ todo # <<>> /\ WillBe(cache, todo, c) /\ Coherent(c)
  <2>1. CASE Head(events) = None
    BY <1>3, <2>1, CopiesAreCoherent, ForgottenLeaves DEF Coherent
  <2>2. CASE Head(events) # None
    <3>1. PICK m \in Model : m = Head(events)
      BY <1>1, <2>2 DEF Announcement
    <3>2. todo = Announced(m)
      BY <1>3, <2>2, <3>1
    <3> QED BY <3>2, CopiesAreCoherent, AnnouncedLeaves DEF Coherent
  <2> QED BY <2>1, <2>2
<1>6. InstanceGood(cache, s)
  <2>1. s = [at |-> "write", todo |-> s.todo, then |-> s.then] /\ s.todo = todo /\ s.then = Idle
    BY <1>4
  <2> QED BY <1>5, <2>1 DEF InstanceGood
<1>7. cache' = cache /\ cache' = [k \in Key |-> cache'[k]] /\ worker' = [worker EXCEPT ![w] = s]
  BY <1>3, <1>4 DEF ModelChanged, CopyGood
<1> QED BY <1>6, <1>7, OthersAreNone

LEMMA WriteFits ==
  ASSUME OneInstance, CopyGood, NEW w \in Worker, Write(w)
  PROVE  CopyGood'
<1>1. PICK s : s = worker[w] /\ s.at = "write"
  BY DEF Write, At
<1>2. InstanceGood(cache, s)
  BY <1>1 DEF CopyGood
<1>3. PICK then : then = s.then
  OBVIOUS
<1>4. PICK todo \in Seq(Puts) : /\ todo # <<>> /\ todo = s.todo
                               /\ s = [at |-> "write", todo |-> todo, then |-> then]
  BY <1>1, <1>2, <1>3, InstanceIsAt
<1>5. PICK c \in [Key -> Values] :
        /\ WillBe(cache, todo, c)
        /\ \/ then = Idle /\ Coherent(c)
           \/ \E m \in Model : Fits(c, m) /\ then = Sends(m)
  BY <1>1, <1>2, <1>3, <1>4, InstanceIsAt
<1>6. /\ cache' = [cache EXCEPT ![todo[1].key] = todo[1].val]
      /\ worker' = [worker EXCEPT ![w] = IF Len(todo) = 1 THEN then ELSE [s EXCEPT !.todo = Tail(todo)]]
  <2>1. Head(todo) = todo[1]
    BY <1>4
  <2> QED BY <1>1, <1>3, <1>4, <2>1 DEF Write, Go
<1>7. /\ cache' = [k \in Key |-> cache'[k]]
      /\ Tail(todo) \in Seq(Puts)
      /\ WillBe(cache', Tail(todo), c)
  BY <1>4, <1>5, <1>6, WriteLeaves DEF CopyGood
<1>8. CASE Len(todo) = 1
  <2>1. DOMAIN Tail(todo) = {}
    <3>1. DOMAIN Tail(todo) = 1 .. Len(todo) - 1
      BY <1>4, <1>5, <1>6, WriteLeaves DEF CopyGood
    <3> QED BY <1>8, <3>1
  <2>2. \A k \in Key : cache'[k] = c[k]
    BY <1>7, <2>1 DEF WillBe
  <2>3. /\ Blank(c) => Blank(cache')
        /\ \A m \in Model : Fits(c, m) => Fits(cache', m)
    BY <2>2 DEF Blank, Fits, Key
  <2>4. InstanceGood(cache', then)
    BY <1>5, <2>3 DEF InstanceGood, Coherent
  <2>5. worker' = [worker EXCEPT ![w] = then]
    BY <1>6, <1>8
  <2> QED BY <1>7, <2>4, <2>5, OthersAreNone
<1>9. CASE Len(todo) # 1
  <2>1. PICK next : next = [at |-> "write", todo |-> Tail(todo), then |-> then]
    OBVIOUS
  <2>2. worker' = [worker EXCEPT ![w] = next]
    <3> DEFINE rest == Tail(todo)
    <3> HIDE DEF rest
    <3>1. [s EXCEPT !.todo = rest] = [at |-> "write", todo |-> rest, then |-> then]
      BY <1>4
    <3>2. [s EXCEPT !.todo = Tail(todo)] = next
      BY <2>1, <3>1 DEF rest
    <3> QED BY <1>6, <1>9, <3>2
  <2>3. Tail(todo) # <<>>
    <3>1. Len(Tail(todo)) = Len(todo) - 1 /\ Len(todo) \in Nat \ {0}
      BY <1>4, HeadTailProperties, EmptySeq
    <3> QED BY <1>9, <3>1
  <2>4. /\ next = [at |-> "write", todo |-> next.todo, then |-> next.then]
        /\ next.todo = Tail(todo) /\ next.then = then
    BY <2>1
  <2>5. InstanceGood(cache', next)
    BY <1>5, <1>7, <2>3, <2>4 DEF InstanceGood
  <2> QED BY <1>7, <2>2, <2>5, OthersAreNone
<1> QED BY <1>8, <1>9

LEMMA ActiveLlmFits ==
  ASSUME OneInstance, CopyGood, NEW w \in Worker, ActiveLlm(w)
  PROVE  CopyGood'
<1>1. Coherent(cache)
  BY InstanceIsAt DEF CopyGood, ActiveLlm, At
<1>2. PICK s : /\ s = IF cache.topic # None THEN [at |-> "read", topic |-> cache.topic]
                      ELSE [at |-> "fetch", reply |-> <<>>]
               /\ worker' = [worker EXCEPT ![w] = s]
  BY DEF ActiveLlm, Go
<1>3. InstanceGood(cache, s)
  <2>1. CASE Blank(cache)
    <3>1. cache.topic = None
      BY <2>1 DEF Blank, Key
    <3> QED BY <1>2, <2>1, <3>1 DEF InstanceGood
  <2>2. CASE \E m \in Model : Fits(cache, m)
    <3>1. PICK m \in Model : Fits(cache, m)
      BY <2>2
    <3>2. cache.topic = Topic(m) /\ cache.topic # None
      BY <3>1, TopicIsCapsule, ConstantsAssumption DEF Fits
    <3> QED BY <1>2, <3>1, <3>2 DEF InstanceGood
  <2> QED BY <1>1, <2>1, <2>2 DEF Coherent
<1>4. cache' = cache /\ cache' = [k \in Key |-> cache'[k]]
  BY DEF ActiveLlm, CopyGood
<1> QED BY <1>2, <1>3, <1>4, OthersAreNone

LEMMA ReadModelFits ==
  ASSUME OneInstance, CopyGood, NEW w \in Worker, ReadModel(w)
  PROVE  CopyGood'
<1>0. InstanceGood(cache, worker[w]) /\ worker[w].at = "read"
  BY DEF CopyGood, ReadModel, At
<1>1. PICK m \in Model : Fits(cache, m) /\ worker[w] = [at |-> "read", topic |-> Topic(m)]
  BY <1>0, InstanceIsAt
<1>2. cache.model = m /\ m # None
  BY <1>1, ConstantsAssumption DEF Fits
<1>3. PICK s : s = Sends(m)
  OBVIOUS
<1>4. worker' = [worker EXCEPT ![w] = s]
  BY <1>1, <1>2, <1>3 DEF ReadModel, Go, Sends
<1>5. InstanceGood(cache, s)
  BY <1>1, <1>3 DEF InstanceGood
<1>6. cache' = cache /\ cache' = [k \in Key |-> cache'[k]]
  BY DEF ReadModel, CopyGood
<1> QED BY <1>4, <1>5, <1>6, OthersAreNone

LEMMA FetchEndsFits ==
  ASSUME OneInstance, CopyGood, NEW w \in Worker, FetchEnds(w)
  PROVE  CopyGood'
<1>0. InstanceGood(cache, worker[w]) /\ worker[w].at = "fetch"
  BY DEF CopyGood, FetchEnds, At
<1>1. Blank(cache)
  BY <1>0, InstanceIsAt
<1>2. PICK reply \in {<<>>} \cup {<<m>> : m \in Announcement} :
        worker[w] = [at |-> "fetch", reply |-> reply]
  BY <1>0, InstanceIsAt
<1>3. cache' = cache /\ cache' = [k \in Key |-> cache'[k]]
  BY DEF FetchEnds, CopyGood
<1>4. CASE reply \in {<<>>, <<None>>}
  <2>1. worker' = [worker EXCEPT ![w] = Idle]
    <3>1. worker[w].reply = reply
      BY <1>2
    <3> QED BY <1>4, <3>1 DEF FetchEnds, Go
  <2>2. InstanceGood(cache, Idle)
    BY <1>1 DEF InstanceGood, Coherent
  <2> QED BY <1>3, <2>1, <2>2, OthersAreNone
<1>5. CASE reply \notin {<<>>, <<None>>}
  <2>1. PICK m \in Model : reply = <<m>>
    BY <1>5 DEF Announcement
  <2>2. PICK todo : todo = Fetched(m)
    OBVIOUS
  <2>3. PICK s : s = [at |-> "write", todo |-> todo, then |-> Sends(m)]
    OBVIOUS
  <2>4. worker[w].reply[1] = m /\ worker[w].reply \notin {<<>>, <<None>>}
    BY <1>2, <1>5, <2>1
  <2>5. worker' = [worker EXCEPT ![w] = s]
    BY <2>2, <2>3, <2>4 DEF FetchEnds, Go, Sends
  <2>6. /\ todo \in Seq(Puts) /\ todo # <<>> /\ WillBe(cache, todo, Copy(m))
        /\ Copy(m) \in [Key -> Values] /\ Fits(Copy(m), m)
    BY <1>1, <2>2, FetchedLeaves, CopiesAreCoherent
  <2>7. s = [at |-> "write", todo |-> s.todo, then |-> s.then] /\ s.todo = todo /\ s.then = Sends(m)
    BY <2>3
  <2>8. InstanceGood(cache, s)
    BY <2>6, <2>7 DEF InstanceGood
  <2> QED BY <1>3, <2>5, <2>8, OthersAreNone
<1> QED BY <1>4, <1>5

LEMMA PublishFits ==
  ASSUME OneInstance, CopyGood, NEW w \in Worker, PublishLlmRequest(w)
  PROVE  CopyGood' /\ RequestsFit'
<1>0. InstanceGood(cache, worker[w]) /\ worker[w].at = "send"
  BY DEF CopyGood, PublishLlmRequest, At
<1>1. PICK m \in Model : Fits(cache, m) /\ worker[w] = Sends(m)
  BY <1>0, InstanceIsAt
<1>2. sent' = [topic |-> Topic(m), model |-> m, limits |-> cache.limits]
  BY <1>1 DEF PublishLlmRequest, Sends
<1>3. cache.limits \in {None, Limits[m]}
  BY <1>1 DEF Fits
<1>4. RequestsFit'
  BY <1>2, <1>3 DEF RequestsFit
<1>5. worker' = [worker EXCEPT ![w] = Idle]
  BY DEF PublishLlmRequest, Go
<1>6. InstanceGood(cache, Idle)
  BY <1>1 DEF InstanceGood, Coherent
<1>7. cache' = cache /\ cache' = [k \in Key |-> cache'[k]]
  BY DEF PublishLlmRequest, CopyGood
<1> QED BY <1>4, <1>5, <1>6, <1>7, OthersAreNone

LEMMA GetActiveModelFits ==
  ASSUME RegistryGood, CopyGood, GetActiveModel
  PROVE  CopyGood' /\ UNCHANGED sent
<1>1. PICK known \in Known(Handling(store)) :
        /\ LET h     == Defaulted(Reconciled(known))
               reply == IF h.state.active \in Range(h.state.providers) THEN h.state.active ELSE None
           IN  worker' = [w \in Worker |->
                 IF worker[w].at = "fetch" /\ worker[w].reply = <<>>
                   THEN [worker[w] EXCEPT !.reply = <<reply>>] ELSE worker[w]]
        /\ UNCHANGED <<cache, sent>>
  BY DEF GetActiveModel
<1>2. PICK h \in Handled : h = Defaulted(Reconciled(known))
  BY KnownIsSeen, ReconciledIsHandled, DefaultedIsHandled
<1>3. PICK m : m = IF h.state.active \in Range(h.state.providers) THEN h.state.active ELSE None
  OBVIOUS
<1>4. m \in Announcement
  BY <1>3 DEF Handled, Registered, Announcement, Range
<1>5. worker' = [w \in Worker |->
        IF worker[w].at = "fetch" /\ worker[w].reply = <<>>
          THEN [worker[w] EXCEPT !.reply = <<m>>] ELSE worker[w]]
  BY <1>1, <1>2, <1>3
<1>6. ASSUME NEW w \in Worker
      PROVE  InstanceGood(cache, worker'[w])
  <2>1. InstanceGood(cache, worker[w])
    BY DEF CopyGood
  <2>2. CASE worker[w].at = "fetch" /\ worker[w].reply = <<>>
    <3>0. /\ Blank(cache)
          /\ \E reply \in {<<>>} \cup {<<a>> : a \in Announcement} :
               worker[w] = [at |-> "fetch", reply |-> reply]
      <4>1. PICK s : s = worker[w]
        OBVIOUS
      <4>2. InstanceGood(cache, s) /\ s.at = "fetch"
        BY <2>1, <2>2, <4>1
      <4> QED BY <4>1, <4>2, InstanceIsAt
    <3>1. PICK reply \in {<<>>} \cup {<<a>> : a \in Announcement} :
            worker[w] = [at |-> "fetch", reply |-> reply]
      BY <3>0
    <3>2. Blank(cache)
      BY <3>0
    <3>3. worker'[w] = [worker[w] EXCEPT !.reply = <<m>>]
      BY <1>5, <2>2
    <3>4. worker'[w] = [at |-> "fetch", reply |-> <<m>>]
      BY <3>1, <3>3
    <3> QED BY <1>4, <3>2, <3>4 DEF InstanceGood
  <2>3. CASE ~(worker[w].at = "fetch" /\ worker[w].reply = <<>>)
    <3>1. worker'[w] = worker[w]
      BY <1>5, <2>3
    <3> QED BY <2>1, <3>1
  <2> QED BY <2>2, <2>3
<1> QED BY <1>1, <1>5, <1>6 DEF CopyGood

\* On a coordinator whose interceptors run one after another a request names a
\* model of the provider it goes to, and was cut down to that model's context
\* window or to none, whatever was announced while earlier requests were made
\* (cached_model_action, cleared_cache_keys, fetch_active_llm_topic_from_registry).
THEOREM RequestsFitTheirModels ==
  ASSUME OneInstance
  PROVE  Spec => []RequestsFit
<1>1. Init => CopyGood /\ RequestsFit
  BY DEF Init, CopyGood, RequestsFit, InstanceGood, Coherent, Blank
<1>2. SelectionInv /\ CopyGood /\ RequestsFit /\ [Next]_vars => CopyGood' /\ RequestsFit'
  <2> SUFFICES ASSUME SelectionInv, CopyGood, RequestsFit, [Next]_vars
               PROVE  CopyGood' /\ RequestsFit'
    OBVIOUS
  <2>1. RegistryGood
    BY DEF SelectionInv
  <2>2. ASSUME UNCHANGED <<cache, worker, sent>>
        PROVE  CopyGood' /\ RequestsFit'
    BY <2>2 DEF CopyGood, RequestsFit
  <2>3. CASE Registry
    <3>1. CASE GetActiveModel
      BY <2>1, <3>1, GetActiveModelFits DEF RequestsFit
    <3>2. CASE ~GetActiveModel
      BY <2>2, <2>3, <3>2 DEF Registry, Startup, CapsulesLoaded, GetProviders, SetActiveModel,
         CliShow, CliSet, CliUnset
    <3> QED BY <3>1, <3>2
  <2>4. ASSUME NEW w \in Worker, ModelChanged(w) \/ ActiveLlm(w) \/ Step(w)
        PROVE  CopyGood' /\ RequestsFit'
    <3>1. CASE PublishLlmRequest(w)
      BY <3>1, PublishFits
    <3>2. CASE ModelChanged(w) \/ ActiveLlm(w) \/ Write(w) \/ ReadModel(w) \/ FetchEnds(w)
      <4>1. CopyGood'
        BY <2>1, <3>2, ModelChangedFits, ActiveLlmFits, WriteFits, ReadModelFits, FetchEndsFits
      <4>2. sent' = sent
        BY <3>2 DEF ModelChanged, ActiveLlm, Write, ReadModel, FetchEnds
      <4> QED BY <4>1, <4>2 DEF RequestsFit
    <3> QED BY <2>4, <3>1, <3>2 DEF Step
  <2>5. CASE UNCHANGED vars
    BY <2>2, <2>5 DEF vars
  <2> QED BY <2>3, <2>4, <2>5 DEF Next
<1> QED BY <1>1, <1>2, SelectionHolds, PTL DEF Spec

-----------------------------------------------------------------------------
(* What the cut of a transcript computes.                                  *)

\* Induction, up to a number.
LEMMA Climb ==
  ASSUME NEW n \in Nat, NEW T, 0 \in T, \A k \in 1 .. n : k - 1 \in T => k \in T
  PROVE  \A k \in 0 .. n : k \in T
<1> DEFINE U == {k \in Nat : k <= n => k \in T}
<1>1. U \in SUBSET Nat /\ 0 \in U
  OBVIOUS
<1>2. ASSUME NEW k \in U
      PROVE  k + 1 \in U
  <2>1. k \in Nat /\ k + 1 \in Nat /\ (k + 1) - 1 = k /\ (k + 1 <= n => k + 1 \in 1 .. n /\ k <= n)
    OBVIOUS
  <2> QED BY <2>1
<1>3. U = Nat
  <2> HIDE DEF U
  <2> QED BY <1>1, <1>2, SetInduction
<1> QED BY <1>3

\* A function defined by recursion on a number is there ...
Climbs(f, n, base, step) == f[0] = base /\ \A k \in 1 .. n : f[k] = step[k][f[k - 1]]

LEMMA RecursionExists ==
  ASSUME NEW S, NEW n \in Nat, NEW base \in S, NEW step \in [1 .. n -> [S -> S]]
  PROVE  \E f \in [0 .. n -> S] : Climbs(f, n, base, step)
<1> DEFINE Fills(m) == \E f \in [0 .. m -> S] :
                         f[0] = base /\ \A k \in 1 .. m : f[k] = step[k][f[k - 1]]
           T == {m \in 0 .. n : Fills(m)}
<1>1. Fills(0)
  <2>1. PICK f : f = [k \in 0 .. 0 |-> base]
    OBVIOUS
  <2>2. f \in [0 .. 0 -> S] /\ f[0] = base /\ \A k \in 1 .. 0 : FALSE
    BY <2>1
  <2> QED BY <2>2
<1>2. ASSUME NEW m \in 1 .. n, Fills(m - 1)
      PROVE  Fills(m)
  <2>1. PICK f \in [0 .. m - 1 -> S] :
          f[0] = base /\ \A k \in 1 .. m - 1 : f[k] = step[k][f[k - 1]]
    BY <1>2
  <2>2. PICK x \in S : x = step[m][f[m - 1]]
    <3>1. m - 1 \in 0 .. m - 1
      OBVIOUS
    <3>2. f[m - 1] \in S
      BY <3>1
    <3> QED BY <3>2
  <2>3. PICK g : g = [k \in 0 .. m |-> IF k = m THEN x ELSE f[k]]
    OBVIOUS
  <2>4. g \in [0 .. m -> S] /\ g[0] = base
    BY <2>1, <2>3
  <2>5. ASSUME NEW k \in 1 .. m
        PROVE  g[k] = step[k][g[k - 1]]
    <3>1. g[k - 1] = f[k - 1]
      BY <2>3
    <3>2. CASE k = m
      BY <2>2, <2>3, <3>1, <3>2
    <3>3. CASE k # m
      <4>1. k \in 1 .. m - 1 /\ g[k] = f[k]
        BY <2>3, <3>3
      <4> QED BY <2>1, <3>1, <4>1
    <3> QED BY <3>2, <3>3
  <2> QED BY <2>4, <2>5
<1>3. \A m \in 0 .. n : m \in T
  <2> HIDE DEF Fills
  <2>1. 0 \in T /\ \A m \in 1 .. n : m - 1 \in T => m \in T
    BY <1>1, <1>2
  <2> HIDE DEF T
  <2> QED BY <2>1, Climb
<1>4. Fills(n)
  <2> HIDE DEF Fills
  <2> QED BY <1>3
<1> QED BY <1>4 DEF Climbs

\* ... and so the estimate of a transcript is,
Sums(f, s) == f[0] = 0 /\ \A k \in 1 .. Len(s) : f[k] = f[k - 1] + s[k].size

\* The tokens are the last of the running sums.
LEMMA TokensIs ==
  ASSUME NEW s \in Seq(Message)
  PROVE  \E f \in [0 .. Len(s) -> Nat] : Sums(f, s) /\ Tokens(s) = f[Len(s)]
<1>1. PICK n \in Nat : n = Len(s)
  BY LenProperties
<1>2. \A k \in 1 .. n : s[k].size \in Nat
  <2>1. \A k \in 1 .. n : s[k] \in Message
    BY <1>1, ElementOfSeq, LenProperties
  <2> QED BY <2>1, CompactionAssumption DEF Message
<1> DEFINE R(f) == [k \in 0 .. n |-> IF k = 0 THEN 0 ELSE f[k - 1] + s[k].size]
           F == CHOOSE f : f = R(f)
<1>3. F = R(F)
  <2>0. PICK step : step = [k \in 1 .. n |-> [x \in Nat |-> x + s[k].size]]
    OBVIOUS
  <2>1. PICK f \in [0 .. n -> Nat] : Climbs(f, n, 0, step)
    <3>0. ASSUME NEW k \in 1 .. n, NEW x \in Nat
          PROVE  x + s[k].size \in Nat
      BY <1>2
    <3>1. step \in [1 .. n -> [Nat -> Nat]]
      BY <2>0, <3>0
    <3>2. 0 \in Nat
      OBVIOUS
    <3> QED BY <3>1, <3>2, RecursionExists
  <2>2. \A k \in 1 .. n : k - 1 \in 0 .. n /\ f[k - 1] \in Nat /\ f[k] = f[k - 1] + s[k].size
    <3>1. ASSUME NEW k \in 1 .. n
          PROVE  k - 1 \in 0 .. n /\ f[k] = step[k][f[k - 1]]
      BY <2>1 DEF Climbs
    <3>2. ASSUME NEW k \in 1 .. n, NEW x \in Nat
          PROVE  step[k][x] = x + s[k].size
      BY <2>0
    <3>3. \A k \in 0 .. n : f[k] \in Nat
      OBVIOUS
    <3> QED BY <3>1, <3>2, <3>3
  <2>3. f = R(f)
    BY <2>1, <2>2 DEF Climbs
  <2> QED BY <2>3
<1>4. Tokens(s) = F[n]
  BY <1>1 DEF Tokens
<1> HIDE DEF F
<1>5. \A k \in 0 .. n : k \in {j \in 0 .. n : F[j] \in Nat}
  <2>1. ASSUME NEW k \in 1 .. n, F[k - 1] \in Nat
        PROVE  F[k] \in Nat
    BY <1>2, <1>3, <2>1
  <2>2. 0 \in 0 .. n /\ F[0] = 0
    BY <1>3
  <2>3. \A k \in 1 .. n : k \in 0 .. n
    OBVIOUS
  <2> DEFINE T == {j \in 0 .. n : F[j] \in Nat}
  <2>4. 0 \in T /\ \A k \in 1 .. n : k - 1 \in T => k \in T
    BY <2>1, <2>2, <2>3
  <2> HIDE DEF T
  <2>5. \A k \in 0 .. n : k \in T
    BY <2>4, Climb
  <2> QED BY <2>5 DEF T
<1>6. F \in [0 .. n -> Nat]
  BY <1>3, <1>5
<1>7. F[0] = 0 /\ \A k \in 1 .. n : F[k] = F[k - 1] + s[k].size
  BY <1>3
<1>8. Sums(F, s)
  BY <1>1, <1>7 DEF Sums
<1> QED BY <1>1, <1>4, <1>6, <1>8

\* what is left of it,
Leaves(f, s, gone) ==
  f[0] = <<>> /\ \A k \in 1 .. Len(s) :
    f[k] = IF k \in gone THEN f[k - 1] ELSE Append(f[k - 1], s[k])

\* What is left is what has been kept at the last message.
LEMMA WithoutIs ==
  ASSUME NEW s \in Seq(Message), NEW gone
  PROVE  \E f \in [0 .. Len(s) -> Seq(Message)] :
           Leaves(f, s, gone) /\ Without(s, gone) = f[Len(s)]
<1>1. PICK n \in Nat : n = Len(s)
  BY LenProperties
<1>2. \A k \in 1 .. n : s[k] \in Message
  BY <1>1, ElementOfSeq, LenProperties
<1> DEFINE Add(x, k) == IF k \in gone THEN x ELSE Append(x, s[k])
           R(f) == [k \in 0 .. n |-> IF k = 0 THEN <<>> ELSE Add(f[k - 1], k)]
           F == CHOOSE f : f = R(f)
<1>3. \A k \in 1 .. n, x \in Seq(Message) : Add(x, k) \in Seq(Message)
  BY <1>2, AppendProperties
<1>4. <<>> \in Seq(Message)
  OBVIOUS
<1> HIDE DEF Add
<1>5. F = R(F)
  <2>0. PICK step : step = [k \in 1 .. n |-> [x \in Seq(Message) |-> Add(x, k)]]
    OBVIOUS
  <2>1. PICK f \in [0 .. n -> Seq(Message)] : Climbs(f, n, <<>>, step)
    <3>1. step \in [1 .. n -> [Seq(Message) -> Seq(Message)]]
      BY <1>3, <2>0
    <3> QED BY <1>4, <3>1, RecursionExists
  <2>2. ASSUME NEW k \in 1 .. n
        PROVE  f[k] = Add(f[k - 1], k)
    <3>1. f[k - 1] \in Seq(Message)
      OBVIOUS
    <3>2. step[k][f[k - 1]] = Add(f[k - 1], k)
      BY <2>0, <3>1
    <3> QED BY <2>1, <3>2 DEF Climbs
  <2>3. \A k \in 0 .. n : k # 0 => k \in 1 .. n
    OBVIOUS
  <2>4. f = R(f)
    BY <2>1, <2>2, <2>3 DEF Climbs
  <2> QED BY <2>4
<1>6. Without(s, gone) = F[n]
  BY <1>1 DEF Without, Add
<1> HIDE DEF F
<1> DEFINE T == {j \in 0 .. n : F[j] \in Seq(Message)}
<1>7. \A k \in 0 .. n : k \in T
  <2>1. ASSUME NEW k \in 1 .. n, F[k - 1] \in Seq(Message)
        PROVE  F[k] \in Seq(Message)
    <3>1. k \in 0 .. n /\ k # 0
      OBVIOUS
    <3>2. F[k] = Add(F[k - 1], k)
      BY <1>5, <3>1
    <3> QED BY <1>3, <2>1, <3>2
  <2>2. 0 \in 0 .. n /\ F[0] = <<>>
    BY <1>5
  <2>3. \A k \in 1 .. n : k \in 0 .. n
    OBVIOUS
  <2>4. 0 \in T /\ \A k \in 1 .. n : k - 1 \in T => k \in T
    BY <1>4, <2>1, <2>2, <2>3
  <2> HIDE DEF T
  <2> QED BY <2>4, Climb
<1>8. F \in [0 .. n -> Seq(Message)]
  BY <1>5, <1>7
<1>9. F[0] = <<>> /\ \A k \in 1 .. n : F[k] = Add(F[k - 1], k)
  <2>1. \A k \in 1 .. n : k \in 0 .. n /\ k # 0
    OBVIOUS
  <2>2. 0 \in 0 .. n
    OBVIOUS
  <2> QED BY <1>5, <2>1, <2>2
<1>10. Leaves(F, s, gone)
  BY <1>1, <1>9 DEF Leaves, Add
<1> QED BY <1>1, <1>6, <1>8, <1>10

\* A transcript has a number of tokens.
LEMMA TokensTyped ==
  ASSUME NEW s \in Seq(Message)
  PROVE  Tokens(s) \in Nat
<1>1. PICK f \in [0 .. Len(s) -> Nat] : Tokens(s) = f[Len(s)]
  BY TokensIs
<1>2. Len(s) \in 0 .. Len(s)
  BY LenProperties
<1> QED BY <1>1, <1>2

\* and what the loop over it removes.
RemovedAfter(s, target, pinned, before, k) ==
  IF k \in Removable(s, pinned) /\ ~WithinBudget(before.tokens, target)
    THEN [gone |-> before.gone \cup {k}, tokens |-> before.tokens - s[k].size]
    ELSE before

Removes(f, s, target, pinned) ==
  /\ f[0] = [gone |-> {}, tokens |-> Tokens(s)]
  /\ \A k \in 1 .. Len(s) : f[k] = RemovedAfter(s, target, pinned, f[k - 1], k)

\* What a cut leaves is decided message after message.
LEMMA TruncatedIs ==
  ASSUME NEW s \in Seq(Message), NEW target, NEW pinned
  PROVE  \E f \in [0 .. Len(s) -> [gone : SUBSET Nat, tokens : Int]] :
           /\ Removes(f, s, target, pinned)
           /\ Truncated(s, target, pinned) = Without(s, f[Len(s)].gone)
<1> DEFINE S == [gone : SUBSET Nat, tokens : Int]
           After(x, k) == RemovedAfter(s, target, pinned, x, k)
<1>1. PICK n \in Nat : n = Len(s)
  BY LenProperties
<1>2. ASSUME NEW k \in 1 .. n, NEW x \in S
      PROVE  After(x, k) \in S
  <2>1. s[k] \in Message
    BY <1>1, ElementOfSeq, LenProperties
  <2>2. s[k].size \in Nat
    BY <2>1, CompactionAssumption DEF Message
  <2>3. x.gone \cup {k} \in SUBSET Nat /\ x.tokens - s[k].size \in Int
    BY <2>2
  <2> QED BY <2>3 DEF RemovedAfter
<1>3. PICK base \in S : base = [gone |-> {}, tokens |-> Tokens(s)]
  <2>1. PICK t \in Nat : t = Tokens(s)
    BY TokensTyped
  <2>2. [gone |-> {}, tokens |-> t] \in S
    OBVIOUS
  <2> QED BY <2>1, <2>2
<1> DEFINE R(f) == [k \in 0 .. n |-> IF k = 0 THEN base ELSE After(f[k - 1], k)]
           F == CHOOSE f : f = R(f)
<1>4. Truncated(s, target, pinned) = Without(s, F[n].gone)
  BY <1>1, <1>3 DEF Truncated, RemovedAfter
<1> HIDE DEF After, S
<1>5. F = R(F)
  <2>1. PICK step : step = [k \in 1 .. n |-> [x \in S |-> After(x, k)]]
    OBVIOUS
  <2>2. PICK f \in [0 .. n -> S] : Climbs(f, n, base, step)
    <3>1. step \in [1 .. n -> [S -> S]]
      BY <1>2, <2>1
    <3> QED BY <3>1, RecursionExists
  <2>3. ASSUME NEW k \in 1 .. n
        PROVE  f[k] = After(f[k - 1], k)
    <3>1. f[k - 1] \in S
      OBVIOUS
    <3>2. step[k][f[k - 1]] = After(f[k - 1], k)
      BY <2>1, <3>1
    <3> QED BY <2>2, <3>2 DEF Climbs
  <2>4. \A k \in 0 .. n : k # 0 => k \in 1 .. n
    OBVIOUS
  <2>5. f = R(f)
    BY <2>2, <2>3, <2>4 DEF Climbs
  <2> QED BY <2>5
<1> HIDE DEF F
<1> DEFINE T == {j \in 0 .. n : F[j] \in S}
<1>6. \A k \in 1 .. n : F[k] = After(F[k - 1], k)
  <2>1. \A k \in 1 .. n : k \in 0 .. n /\ k # 0
    OBVIOUS
  <2> QED BY <1>5, <2>1
<1>7. F[0] = base
  <2>1. 0 \in 0 .. n
    OBVIOUS
  <2> QED BY <1>5, <2>1
<1>8. \A k \in 0 .. n : k \in T
  <2>1. ASSUME NEW k \in 1 .. n, F[k - 1] \in S
        PROVE  F[k] \in S
    BY <1>2, <1>6, <2>1
  <2>2. \A k \in 1 .. n : k \in 0 .. n
    OBVIOUS
  <2>3. 0 \in T /\ \A k \in 1 .. n : k - 1 \in T => k \in T
    BY <1>7, <2>1, <2>2
  <2> HIDE DEF T
  <2> QED BY <2>3, Climb
<1>9. F \in [0 .. n -> S]
  BY <1>5, <1>8
<1>10. Removes(F, s, target, pinned)
  BY <1>1, <1>3, <1>6, <1>7 DEF Removes, After
<1> QED BY <1>1, <1>4, <1>9, <1>10 DEF S

\* One message more adds its size.
LEMMA AppendTokens ==
  ASSUME NEW s \in Seq(Message), NEW m \in Message
  PROVE  Tokens(Append(s, m)) = Tokens(s) + m.size
<1>1. PICK n \in Nat : n = Len(s)
  BY LenProperties
<1>2. PICK t \in Seq(Message) : /\ t = Append(s, m) /\ Len(t) = n + 1 /\ t[n + 1] = m
                                /\ \A k \in 1 .. n : t[k] = s[k]
  <2>1. /\ Append(s, m) \in Seq(Message) /\ Len(Append(s, m)) = Len(s) + 1
        /\ Append(s, m)[Len(s) + 1] = m
        /\ \A k \in 1 .. Len(s) : Append(s, m)[k] = s[k]
    BY AppendProperties
  <2> QED BY <1>1, <2>1
<1>3. PICK f \in [0 .. n -> Nat] : /\ f[0] = 0 /\ \A k \in 1 .. n : f[k] = f[k - 1] + s[k].size
                                   /\ Tokens(s) = f[n]
  <2>1. PICK f \in [0 .. Len(s) -> Nat] : Sums(f, s) /\ Tokens(s) = f[Len(s)]
    BY TokensIs
  <2> QED BY <1>1, <2>1 DEF Sums
<1>4. PICK g \in [0 .. n + 1 -> Nat] :
        /\ g[0] = 0 /\ \A k \in 1 .. n + 1 : g[k] = g[k - 1] + t[k].size
        /\ Tokens(t) = g[n + 1]
  <2>1. PICK g \in [0 .. Len(t) -> Nat] : Sums(g, t) /\ Tokens(t) = g[Len(t)]
    BY TokensIs
  <2> QED BY <1>2, <2>1 DEF Sums
<1> DEFINE T == {k \in 0 .. n : g[k] = f[k]}
<1>5. \A k \in 0 .. n : k \in T
  <2>1. 0 \in T
    BY <1>3, <1>4
  <2>2. ASSUME NEW k \in 1 .. n, k - 1 \in T
        PROVE  k \in T
    <3>1. k \in 0 .. n /\ k \in 1 .. n + 1
      OBVIOUS
    <3>2. f[k] = f[k - 1] + s[k].size /\ g[k] = g[k - 1] + t[k].size /\ t[k] = s[k]
      BY <1>2, <1>3, <1>4, <3>1
    <3> QED BY <2>2, <3>1, <3>2
  <2> HIDE DEF T
  <2> QED BY <2>1, <2>2, Climb
<1>6. g[n] = f[n]
  <2>1. n \in 0 .. n
    OBVIOUS
  <2> QED BY <1>5, <2>1
<1>7. n + 1 \in 1 .. n + 1 /\ (n + 1) - 1 = n
  OBVIOUS
<1>8. g[n + 1] = g[n] + t[n + 1].size
  BY <1>4, <1>7
<1> QED BY <1>2, <1>3, <1>4, <1>6, <1>8

\* An empty transcript has none.
LEMMA NoTokens ==
  <<>> \in Seq(Message) /\ Tokens(<<>>) = 0
<1>1. <<>> \in Seq(Message) /\ Len(<<>>) = 0
  OBVIOUS
<1>2. PICK f \in [0 .. Len(<<>>) -> Nat] : Sums(f, <<>>) /\ Tokens(<<>>) = f[Len(<<>>)]
  BY <1>1, TokensIs
<1> QED BY <1>1, <1>2 DEF Sums

\* Every message knows its place.
Numbered(s) == \A k \in DOMAIN s : s[k].n = k

\* What is left of a transcript is what does not go, in order.
LEMMA WithoutKeeps ==
  ASSUME NEW s \in Seq(Message), NEW gone
  PROVE  LET w == Without(s, gone)
         IN  /\ w \in Seq(Message)
             /\ \A p \in DOMAIN w : \E k \in DOMAIN s \ gone : w[p] = s[k]
             /\ \A k \in DOMAIN s \ gone : \E p \in DOMAIN w : w[p] = s[k]
             /\ Numbered(s) => \A p, q \in DOMAIN w : p < q => w[p].n < w[q].n
<1>1. PICK n \in Nat : n = Len(s) /\ DOMAIN s = 1 .. n
  BY LenProperties
<1>2. PICK f \in [0 .. n -> Seq(Message)] :
        /\ f[0] = <<>>
        /\ \A k \in 1 .. n : f[k] = IF k \in gone THEN f[k - 1] ELSE Append(f[k - 1], s[k])
        /\ Without(s, gone) = f[n]
  <2>1. PICK f \in [0 .. Len(s) -> Seq(Message)] :
          Leaves(f, s, gone) /\ Without(s, gone) = f[Len(s)]
    BY WithoutIs
  <2> QED BY <1>1, <2>1 DEF Leaves
<1>3. \A k \in 1 .. n : s[k] \in Message
  BY <1>1, ElementOfSeq
<1> DEFINE Kept(j) ==
             /\ \A p \in DOMAIN f[j] : \E k \in (1 .. j) \ gone : f[j][p] = s[k]
             /\ \A k \in (1 .. j) \ gone : \E p \in DOMAIN f[j] : f[j][p] = s[k]
             /\ Numbered(s) => \A p, q \in DOMAIN f[j] : p < q => f[j][p].n < f[j][q].n
           T == {j \in 0 .. n : Kept(j)}
<1>4. Kept(0)
  <2>1. DOMAIN f[0] = {} /\ 1 .. 0 = {}
    BY <1>2
  <2> QED BY <2>1
<1>5. ASSUME NEW j \in 1 .. n, Kept(j - 1)
      PROVE  Kept(j)
  <2>1. PICK w \in Seq(Message) : w = f[j - 1]
    <3>1. j - 1 \in 0 .. n
      OBVIOUS
    <3> QED BY <3>1
  <2>2. /\ \A p \in DOMAIN w : \E k \in (1 .. j - 1) \ gone : w[p] = s[k]
        /\ \A k \in (1 .. j - 1) \ gone : \E p \in DOMAIN w : w[p] = s[k]
        /\ Numbered(s) => \A p, q \in DOMAIN w : p < q => w[p].n < w[q].n
    BY <1>5, <2>1
  <2>3. CASE j \in gone
    <3>1. f[j] = w
      BY <1>2, <2>1, <2>3
    <3>2. (1 .. j) \ gone = (1 .. j - 1) \ gone
      BY <2>3
    <3> QED BY <2>2, <3>1, <3>2
  <2>4. CASE j \notin gone
    <3>1. PICK e \in Message : e = s[j]
      BY <1>3
    <3>2. PICK h \in Nat : h = Len(w) /\ DOMAIN w = 1 .. h
      BY LenProperties
    <3>3. PICK v \in Seq(Message) :
            /\ v = Append(w, e) /\ DOMAIN v = 1 .. h + 1 /\ v[h + 1] = e
            /\ \A p \in 1 .. h : v[p] = w[p]
      <4>1. /\ Append(w, e) \in Seq(Message) /\ DOMAIN Append(w, e) = 1 .. Len(w) + 1
            /\ Append(w, e)[Len(w) + 1] = e
            /\ \A p \in 1 .. Len(w) : Append(w, e)[p] = w[p]
        BY AppendProperties
      <4> QED BY <3>2, <4>1
    <3>4. f[j] = v
      BY <1>2, <2>1, <2>4, <3>1, <3>3
    <3>5. j \in (1 .. j) \ gone /\ (1 .. j) \ gone = ((1 .. j - 1) \ gone) \cup {j}
      BY <2>4
    <3>6. h + 1 \in 1 .. h + 1 /\ 1 .. h + 1 = (1 .. h) \cup {h + 1}
      OBVIOUS
    <3>7. \A p \in DOMAIN v : \E k \in (1 .. j) \ gone : v[p] = s[k]
      BY <2>2, <3>1, <3>2, <3>3, <3>5, <3>6
    <3>8. \A k \in (1 .. j) \ gone : \E p \in DOMAIN v : v[p] = s[k]
      BY <2>2, <3>1, <3>2, <3>3, <3>5, <3>6
    <3>9. ASSUME Numbered(s), NEW p \in DOMAIN v, NEW q \in DOMAIN v, p < q
          PROVE  v[p].n < v[q].n
      <4>1. p \in 1 .. h /\ v[p] = w[p] /\ p \in DOMAIN w
        BY <3>2, <3>3, <3>9
      <4>2. CASE q \in 1 .. h
        BY <2>2, <3>2, <3>3, <3>9, <4>1, <4>2
      <4>3. CASE q = h + 1
        <5>1. PICK k \in (1 .. j - 1) \ gone : w[p] = s[k]
          BY <2>2, <4>1
        <5>2. k \in DOMAIN s /\ j \in DOMAIN s /\ k < j
          BY <1>1
        <5>3. s[k].n = k /\ s[j].n = j
          BY <3>9, <5>2 DEF Numbered
        <5> QED BY <3>1, <3>3, <4>1, <4>3, <5>1, <5>2, <5>3
      <4> QED BY <3>3, <3>6, <4>2, <4>3
    <3> QED BY <3>4, <3>7, <3>8, <3>9
  <2> QED BY <2>3, <2>4
<1>6. \A j \in 0 .. n : j \in T
  <2> HIDE DEF Kept
  <2>1. \A j \in 1 .. n : j \in 0 .. n
    OBVIOUS
  <2>2. 0 \in T /\ \A j \in 1 .. n : j - 1 \in T => j \in T
    BY <1>4, <1>5, <2>1
  <2> HIDE DEF T
  <2> QED BY <2>2, Climb
<1>7. Kept(n) /\ f[n] \in Seq(Message) /\ 1 .. n = DOMAIN s
  <2>1. n \in 0 .. n
    OBVIOUS
  <2>2. n \in T
    BY <1>6, <2>1
  <2>3. Kept(n)
    <3> HIDE DEF Kept
    <3> QED BY <2>2
  <2> QED BY <1>1, <2>1, <2>3
<1>8. PICK w \in Seq(Message) : w = Without(s, gone) /\ w = f[n]
  BY <1>2, <1>7
<1> QED BY <1>7, <1>8

\* A message that goes takes its size with it,
LEMMA WithoutTokens ==
  ASSUME NEW s \in Seq(Message), NEW gone, NEW x \in DOMAIN s, x \notin gone
  PROVE  Tokens(Without(s, gone \cup {x})) = Tokens(Without(s, gone)) - s[x].size
<1>1. PICK n \in Nat : n = Len(s) /\ DOMAIN s = 1 .. n
  BY LenProperties
<1>2. \A k \in 1 .. n : s[k] \in Message /\ s[k].size \in Nat
  <2>1. \A k \in 1 .. n : s[k] \in Message
    BY <1>1, ElementOfSeq
  <2> QED BY <2>1, CompactionAssumption DEF Message
<1>3. PICK more : more = gone \cup {x}
  OBVIOUS
<1>4. PICK f \in [0 .. n -> Seq(Message)] :
        /\ f[0] = <<>>
        /\ \A k \in 1 .. n : f[k] = IF k \in gone THEN f[k - 1] ELSE Append(f[k - 1], s[k])
        /\ Without(s, gone) = f[n]
  <2>1. PICK f \in [0 .. Len(s) -> Seq(Message)] :
          Leaves(f, s, gone) /\ Without(s, gone) = f[Len(s)]
    BY WithoutIs
  <2> QED BY <1>1, <2>1 DEF Leaves
<1>5. PICK g \in [0 .. n -> Seq(Message)] :
        /\ g[0] = <<>>
        /\ \A k \in 1 .. n : g[k] = IF k \in more THEN g[k - 1] ELSE Append(g[k - 1], s[k])
        /\ Without(s, more) = g[n]
  <2>1. PICK g \in [0 .. Len(s) -> Seq(Message)] :
          Leaves(g, s, more) /\ Without(s, more) = g[Len(s)]
    BY WithoutIs
  <2> QED BY <1>1, <2>1 DEF Leaves
<1> DEFINE Less(j) == Tokens(g[j]) = Tokens(f[j]) - (IF x <= j THEN s[x].size ELSE 0)
           T == {j \in 0 .. n : Less(j)}
<1>6. x \in 1 .. n /\ s[x].size \in Nat
  BY <1>1, <1>2
<1>7. Less(0)
  <2>1. ~(x <= 0)
    BY <1>6
  <2> QED BY <1>4, <1>5, <2>1, NoTokens
<1>8. ASSUME NEW j \in 1 .. n, Less(j - 1)
      PROVE  Less(j)
  <2>1. f[j - 1] \in Seq(Message) /\ g[j - 1] \in Seq(Message)
    <3>1. j - 1 \in 0 .. n
      OBVIOUS
    <3> QED BY <3>1
  <2>2. PICK a \in Nat, b \in Nat, z \in Nat :
          a = Tokens(f[j - 1]) /\ b = Tokens(g[j - 1]) /\ z = s[j].size
    BY <1>2, <2>1, TokensTyped
  <2>3. /\ Tokens(f[j]) = IF j \in gone THEN a ELSE a + z
        /\ Tokens(g[j]) = IF j \in more THEN b ELSE b + z
    BY <1>2, <1>4, <1>5, <2>1, <2>2, AppendTokens
  <2>4. CASE j = x
    <3>1. x \in more /\ ~(x <= j - 1) /\ x <= j
      BY <1>3, <1>6, <2>4
    <3> QED BY <1>6, <1>8, <2>2, <2>3, <2>4, <3>1
  <2>5. CASE j # x
    <3>1. (j \in more <=> j \in gone) /\ (x <= j <=> x <= j - 1)
      BY <1>3, <1>6, <2>5
    <3>2. PICK c \in Nat : c = IF x <= j THEN s[x].size ELSE 0
      BY <1>6
    <3>3. b = a - c
      BY <1>8, <2>2, <3>1, <3>2
    <3>4. Tokens(g[j]) = Tokens(f[j]) - c
      <4>1. CASE j \in gone
        BY <2>3, <3>1, <3>3, <4>1
      <4>2. CASE j \notin gone
        <5>1. Tokens(f[j]) = a + z /\ Tokens(g[j]) = b + z
          BY <2>3, <3>1, <4>2
        <5> QED BY <3>3, <5>1
      <4> QED BY <4>1, <4>2
    <3> QED BY <3>2, <3>4
  <2> QED BY <2>4, <2>5
<1>9. \A j \in 0 .. n : j \in T
  <2> HIDE DEF Less
  <2>1. \A j \in 1 .. n : j \in 0 .. n
    OBVIOUS
  <2>2. 0 \in T /\ \A j \in 1 .. n : j - 1 \in T => j \in T
    BY <1>7, <1>8, <2>1
  <2> HIDE DEF T
  <2> QED BY <2>2, Climb
<1>10. n \in 0 .. n /\ x <= n
  BY <1>6
<1> QED BY <1>3, <1>4, <1>5, <1>9, <1>10

\* and where none goes none is less.
LEMMA WithoutNone ==
  ASSUME NEW s \in Seq(Message)
  PROVE  Tokens(Without(s, {})) = Tokens(s)
<1>1. PICK n \in Nat : n = Len(s) /\ DOMAIN s = 1 .. n
  BY LenProperties
<1>2. \A k \in 1 .. n : s[k] \in Message
  BY <1>1, ElementOfSeq
<1>3. PICK f \in [0 .. n -> Seq(Message)] :
        /\ f[0] = <<>> /\ \A k \in 1 .. n : f[k] = Append(f[k - 1], s[k])
        /\ Without(s, {}) = f[n]
  <2>1. PICK gone : gone = {}
    OBVIOUS
  <2>2. PICK f \in [0 .. n -> Seq(Message)] :
          /\ f[0] = <<>>
          /\ \A k \in 1 .. n : f[k] = IF k \in gone THEN f[k - 1] ELSE Append(f[k - 1], s[k])
          /\ Without(s, gone) = f[n]
    <3>1. PICK f \in [0 .. Len(s) -> Seq(Message)] :
            Leaves(f, s, gone) /\ Without(s, gone) = f[Len(s)]
      BY WithoutIs
    <3> QED BY <1>1, <3>1 DEF Leaves
  <2> QED BY <2>1, <2>2
<1>4. PICK g \in [0 .. n -> Nat] : /\ g[0] = 0 /\ \A k \in 1 .. n : g[k] = g[k - 1] + s[k].size
                                   /\ Tokens(s) = g[n]
  <2>1. PICK g \in [0 .. Len(s) -> Nat] : Sums(g, s) /\ Tokens(s) = g[Len(s)]
    BY TokensIs
  <2> QED BY <1>1, <2>1 DEF Sums
<1> DEFINE T == {j \in 0 .. n : Tokens(f[j]) = g[j]}
<1>5. \A j \in 0 .. n : j \in T
  <2>1. ASSUME NEW j \in 1 .. n, j - 1 \in T
        PROVE  j \in T
    <3>1. j - 1 \in 0 .. n /\ j \in 0 .. n
      OBVIOUS
    <3>2. f[j - 1] \in Seq(Message)
      BY <3>1
    <3>3. Tokens(f[j]) = Tokens(f[j - 1]) + s[j].size
      BY <1>2, <1>3, <3>2, AppendTokens
    <3> QED BY <1>4, <2>1, <3>1, <3>3
  <2>2. 0 \in T
    BY <1>3, <1>4, NoTokens
  <2> HIDE DEF T
  <2> QED BY <2>1, <2>2, Climb
<1>6. n \in 0 .. n
  OBVIOUS
<1> QED BY <1>3, <1>4, <1>5, <1>6

\* Which messages a cut removes: the oldest that may go, while the rest is too
\* large.
LEMMA RemovedAre ==
  ASSUME NEW s \in Seq(Message), NEW target \in Nat, NEW pinned
  PROVE  \E gone \in SUBSET Removable(s, pinned) :
           /\ Truncated(s, target, pinned) = Without(s, gone)
           /\ \A j \in Removable(s, pinned) \ gone : \A g \in gone : g < j
           /\ Tokens(Without(s, gone)) <= target \/ gone = Removable(s, pinned)
           /\ \A g \in gone : (\A h \in gone : h <= g) =>
                Tokens(Without(s, gone)) + s[g].size > target
<1>1. PICK n \in Nat : n = Len(s) /\ DOMAIN s = 1 .. n
  BY LenProperties
<1>2. \A k \in 1 .. n : s[k].size \in Nat
  <2>1. \A k \in 1 .. n : s[k] \in Message
    BY <1>1, ElementOfSeq
  <2> QED BY <2>1, CompactionAssumption DEF Message
<1>3. PICK may : may = Removable(s, pinned)
  OBVIOUS
<1>4. may \subseteq 1 .. n
  BY <1>1, <1>3 DEF Removable
<1>5. PICK f \in [0 .. n -> [gone : SUBSET Nat, tokens : Int]] :
        /\ f[0] = [gone |-> {}, tokens |-> Tokens(s)]
        /\ \A k \in 1 .. n : f[k] = RemovedAfter(s, target, pinned, f[k - 1], k)
        /\ Truncated(s, target, pinned) = Without(s, f[n].gone)
  <2>1. PICK f \in [0 .. Len(s) -> [gone : SUBSET Nat, tokens : Int]] :
          /\ Removes(f, s, target, pinned)
          /\ Truncated(s, target, pinned) = Without(s, f[Len(s)].gone)
    BY TruncatedIs
  <2> QED BY <1>1, <2>1 DEF Removes
<1> DEFINE Loop(r, k) ==
             /\ r.gone \subseteq may \cap (1 .. k)
             /\ r.tokens = Tokens(Without(s, r.gone))
             /\ \A j \in may \cap (1 .. k) : j \notin r.gone =>
                  r.tokens <= target /\ \A g \in r.gone : g < j
             /\ \A g \in r.gone : (\A h \in r.gone : h <= g) => r.tokens + s[g].size > target
           T == {k \in 0 .. n : Loop(f[k], k)}
<1>6. Loop(f[0], 0)
  BY <1>5, WithoutNone
<1>7. ASSUME NEW k \in 1 .. n, Loop(f[k - 1], k - 1)
      PROVE  Loop(f[k], k)
  <2>1. PICK gone \in SUBSET Nat, tokens \in Int :
          f[k - 1] = [gone |-> gone, tokens |-> tokens]
    <3>1. k - 1 \in 0 .. n
      OBVIOUS
    <3>2. f[k - 1] \in [gone : SUBSET Nat, tokens : Int]
      BY <3>1
    <3> QED BY <3>2
  <2>2. /\ gone \subseteq may \cap (1 .. k - 1)
        /\ tokens = Tokens(Without(s, gone))
        /\ \A j \in may \cap (1 .. k - 1) : j \notin gone =>
             tokens <= target /\ \A g \in gone : g < j
        /\ \A g \in gone : (\A h \in gone : h <= g) => tokens + s[g].size > target
    BY <1>7, <2>1
  <2>3. ASSUME NEW g \in gone
        PROVE  g \in Nat /\ g < k
    <3>1. g \in 1 .. k - 1
      BY <2>2
    <3> QED BY <3>1
  <2>4. CASE k \in may /\ ~(tokens <= target)
    <3>0. f[k] = RemovedAfter(s, target, pinned, f[k - 1], k)
      BY <1>5
    <3>1. f[k] = [gone |-> gone \cup {k}, tokens |-> tokens - s[k].size]
      BY <1>3, <2>1, <2>4, <3>0 DEF RemovedAfter, WithinBudget
    <3>2. PICK more, left : more = gone \cup {k} /\ left = tokens - s[k].size
      OBVIOUS
    <3>3. left = Tokens(Without(s, more))
      <4>1. k \in DOMAIN s /\ k \notin gone
        BY <1>1, <2>3
      <4> QED BY <2>2, <3>2, <4>1, WithoutTokens
    <3>4. more \subseteq may \cap (1 .. k)
      <4>1. 1 .. k - 1 \subseteq 1 .. k /\ k \in 1 .. k
        OBVIOUS
      <4> QED BY <2>2, <2>4, <3>2, <4>1
    <3>5. \A j \in may \cap (1 .. k) : j \in more
      <4>1. ASSUME NEW j \in may \cap (1 .. k), j # k
            PROVE  j \in gone
        <5>1. j \in 1 .. k - 1
          BY <4>1
        <5> QED BY <2>2, <2>4, <5>1
      <4> QED BY <3>2, <4>1
    <3>6. ASSUME NEW g \in more, \A h \in more : h <= g
          PROVE  left + s[g].size > target
      <4>1. g = k
        <5>1. k \in more /\ k <= g
          BY <3>2, <3>6
        <5>2. g \notin gone
          BY <2>3, <5>1
        <5> QED BY <3>2, <5>2
      <4>2. s[k].size \in Nat /\ left + s[k].size = tokens
        BY <1>2, <3>2
      <4> QED BY <2>4, <4>1, <4>2
    <3>7. f[k].gone = more /\ f[k].tokens = left
      BY <3>1, <3>2
    <3> QED BY <3>3, <3>4, <3>5, <3>6, <3>7
  <2>5. CASE ~(k \in may /\ ~(tokens <= target))
    <3>0. f[k] = RemovedAfter(s, target, pinned, f[k - 1], k)
      BY <1>5
    <3>1. f[k] = f[k - 1]
      BY <1>3, <2>1, <2>5, <3>0 DEF RemovedAfter, WithinBudget
    <3>2. f[k].gone = gone /\ f[k].tokens = tokens
      BY <2>1, <3>1
    <3>3. gone \subseteq may \cap (1 .. k)
      BY <2>2
    <3>4. ASSUME NEW j \in may \cap (1 .. k), j \notin gone
          PROVE  tokens <= target /\ \A g \in gone : g < j
      <4>1. CASE j = k
        BY <2>3, <2>5, <4>1
      <4>2. CASE j # k
        <5>1. j \in 1 .. k - 1
          BY <4>2
        <5> QED BY <2>2, <3>4, <5>1
      <4> QED BY <4>1, <4>2
    <3> QED BY <2>2, <3>2, <3>3, <3>4
  <2> QED BY <2>4, <2>5
<1>8. \A k \in 0 .. n : k \in T
  <2> HIDE DEF Loop
  <2>1. \A k \in 1 .. n : k \in 0 .. n
    OBVIOUS
  <2>2. 0 \in T /\ \A k \in 1 .. n : k - 1 \in T => k \in T
    BY <1>6, <1>7, <2>1
  <2> HIDE DEF T
  <2> QED BY <2>2, Climb
<1>9. Loop(f[n], n)
  <2> HIDE DEF Loop
  <2>1. n \in 0 .. n
    OBVIOUS
  <2> QED BY <1>8, <2>1
<1>10. PICK gone : gone = f[n].gone
  OBVIOUS
<1>11. gone \subseteq may /\ may \cap (1 .. n) = may
  BY <1>4, <1>9, <1>10
<1>12. \A j \in may \ gone : Tokens(Without(s, gone)) <= target /\ \A g \in gone : g < j
  BY <1>9, <1>10, <1>11
<1>13. \A g \in gone : (\A h \in gone : h <= g) => Tokens(Without(s, gone)) + s[g].size > target
  BY <1>9, <1>10
<1>14. Tokens(Without(s, gone)) <= target \/ gone = may
  BY <1>11, <1>12
<1> QED BY <1>3, <1>5, <1>10, <1>11, <1>12, <1>13, <1>14

\* A cut takes what the target asks for, the oldest first, and none more.
LEMMA CutIsLeast ==
  ASSUME NEW s \in Seq(Message), Numbered(s), NEW target \in Nat, NEW pinned
  PROVE  LeastCut(Truncated(s, target, pinned), s, pinned, target)
<1>1. PICK n \in Nat : n = Len(s) /\ DOMAIN s = 1 .. n
  BY LenProperties
<1>2. PICK out \in SUBSET Removable(s, pinned) :
        /\ Truncated(s, target, pinned) = Without(s, out)
        /\ \A j \in Removable(s, pinned) \ out : \A g \in out : g < j
        /\ Tokens(Without(s, out)) <= target \/ out = Removable(s, pinned)
        /\ \A g \in out : (\A h \in out : h <= g) => Tokens(Without(s, out)) + s[g].size > target
  BY RemovedAre
<1>3. PICK cut \in Seq(Message) : cut = Without(s, out)
  BY WithoutKeeps
<1>4. /\ \A p \in DOMAIN cut : \E k \in DOMAIN s \ out : cut[p] = s[k]
      /\ \A k \in DOMAIN s \ out : \E p \in DOMAIN cut : cut[p] = s[k]
      /\ \A p, q \in DOMAIN cut : p < q => cut[p].n < cut[q].n
  BY <1>3, WithoutKeeps
<1>5. DOMAIN cut = 1 .. Len(cut) /\ Len(cut) \in Nat
  BY LenProperties
<1>6. \A k \in DOMAIN s : s[k].n = k
  BY DEF Numbered
<1> DEFINE gone == {m \in ToSet(s) : ~Contains(cut, m)}
           may  == {m \in ToSet(s) : m.n + KeepRecent <= Len(s) /\ m.n \notin pinned}
<1>7. \A k \in DOMAIN s : Contains(cut, s[k]) <=> k \notin out
  <2>1. ASSUME NEW k \in DOMAIN s, k \notin out
        PROVE  Contains(cut, s[k])
    BY <1>4, <1>5, <2>1 DEF Contains
  <2>2. ASSUME NEW k \in DOMAIN s, Contains(cut, s[k])
        PROVE  k \notin out
    <3>1. PICK p \in DOMAIN cut : cut[p] = s[k]
      BY <1>5, <2>2 DEF Contains
    <3>2. PICK j \in DOMAIN s \ out : cut[p] = s[j]
      BY <1>4
    <3>3. s[k].n = k /\ s[j].n = j
      BY <1>6
    <3> QED BY <3>1, <3>2, <3>3
  <2> QED BY <2>1, <2>2
<1>8. \A m \in ToSet(s) : \E k \in DOMAIN s : m = s[k] /\ m.n = k
  BY <1>6 DEF ToSet
<1>9. \A m : m \in gone <=> \E k \in out : m = s[k]
  <2>1. \A k \in out : k \in DOMAIN s
    BY <1>1 DEF Removable
  <2>2. \A k \in DOMAIN s : s[k] \in ToSet(s)
    BY DEF ToSet
  <2> QED BY <1>7, <1>8, <2>1, <2>2
<1>10. \A k \in DOMAIN s : s[k] \in may <=> k \in Removable(s, pinned)
  BY <1>1, <1>6 DEF Removable, ToSet
<1>11. IsInjective(cut)
  <2>1. ASSUME NEW p \in DOMAIN cut, NEW q \in DOMAIN cut, cut[p] = cut[q]
        PROVE  p = q
    <3>1. cut[p].n \in Nat
      <4>1. cut[p] \in Message
        BY ElementOfSeq, <1>5
      <4> QED BY <4>1 DEF Message
    <3>2. ~(cut[p].n < cut[p].n)
      BY <3>1
    <3>3. p \in Nat /\ q \in Nat
      BY <1>5
    <3>4. ~(p < q) /\ ~(q < p)
      BY <1>4, <2>1, <3>2
    <3> QED BY <3>3, <3>4
  <2> QED BY <2>1 DEF IsInjective
<1>12. gone \subseteq may
  BY <1>1, <1>8, <1>9, <1>10 DEF Removable
<1>13. ASSUME NEW m \in may, NEW g \in gone, m.n < g.n
       PROVE  m \in gone
  <2>1. PICK k \in DOMAIN s, j \in DOMAIN s :
          m = s[k] /\ m.n = k /\ g = s[j] /\ g.n = j /\ j \in out /\ k \in Removable(s, pinned)
    <3>1. PICK k \in DOMAIN s : m = s[k] /\ m.n = k
      BY <1>8
    <3>2. k \in Removable(s, pinned)
      BY <1>10, <3>1
    <3>3. PICK j \in out : g = s[j]
      BY <1>9
    <3>4. j \in DOMAIN s
      BY <1>1 DEF Removable
    <3>5. g.n = j
      BY <1>6, <3>3, <3>4
    <3> QED BY <3>1, <3>2, <3>3, <3>4, <3>5
  <2>2. k \in out
    <3>1. k \in Nat /\ j \in Nat /\ k < j
      BY <1>1, <1>13, <2>1
    <3>2. ~(j < k)
      BY <3>1
    <3> QED BY <1>2, <2>1, <3>2
  <2> QED BY <1>9, <2>1, <2>2
<1>14. Tokens(cut) <= target \/ gone = may
  <2>1. ASSUME out = Removable(s, pinned)
        PROVE  may \subseteq gone
    <3>1. ASSUME NEW m \in may
          PROVE  m \in gone
      <4>1. PICK k \in DOMAIN s : m = s[k]
        BY <1>8
      <4>2. k \in out
        BY <1>10, <2>1, <4>1
      <4> QED BY <1>9, <4>1, <4>2
    <3> QED BY <3>1
  <2> QED BY <1>2, <1>3, <1>12, <2>1
<1>15. ASSUME NEW g \in gone, \A h \in gone : h.n <= g.n
       PROVE  Tokens(cut) + g.size > target
  <2>1. PICK k \in out : g = s[k]
    BY <1>9
  <2>2. k \in DOMAIN s
    BY <1>1 DEF Removable
  <2>3. \A h \in out : h <= k
    <3>1. ASSUME NEW h \in out
          PROVE  h <= k
      <4>1. h \in DOMAIN s /\ s[h] \in gone
        BY <1>1, <1>9 DEF Removable
      <4>2. s[h].n <= g.n
        BY <1>15, <4>1
      <4> QED BY <1>6, <2>1, <2>2, <4>1, <4>2
    <3> QED BY <3>1
  <2> QED BY <1>2, <1>3, <2>1, <2>3
<1>16. LeastCut(cut, s, pinned, target)
  BY <1>4, <1>11, <1>12, <1>13, <1>14, <1>15 DEF LeastCut
<1> QED BY <1>2, <1>3, <1>16

\* And the recent messages stay.
LEMMA CutCarries ==
  ASSUME NEW s \in Seq(Message), NEW target \in Nat, NEW pinned
  PROVE  /\ Truncated(s, target, pinned) \in Seq(Message)
         /\ Carries(Truncated(s, target, pinned), s)
<1>1. PICK n \in Nat : n = Len(s) /\ DOMAIN s = 1 .. n
  BY LenProperties
<1>2. PICK out \in SUBSET Removable(s, pinned) : Truncated(s, target, pinned) = Without(s, out)
  BY RemovedAre
<1>3. PICK cut \in Seq(Message) : cut = Without(s, out)
  BY WithoutKeeps
<1>4. /\ \A p \in DOMAIN cut : \E k \in DOMAIN s \ out : cut[p] = s[k]
      /\ \A k \in DOMAIN s \ out : \E p \in DOMAIN cut : cut[p] = s[k]
  BY <1>3, WithoutKeeps
<1>5. ToSet(cut) \subseteq ToSet(s)
  BY <1>4 DEF ToSet
<1>6. ASSUME NEW k \in DOMAIN s, k + KeepRecent > Len(s)
      PROVE  Contains(cut, s[k])
  <2>1. KeepRecent \in Nat
    BY CompactionAssumption
  <2>2. k \notin out
    BY <1>1, <1>6, <2>1 DEF Removable
  <2>3. DOMAIN cut = 1 .. Len(cut)
    BY LenProperties
  <2> QED BY <1>4, <2>2, <2>3 DEF Contains
<1> QED BY <1>2, <1>3, <1>5, <1>6 DEF Carries

-----------------------------------------------------------------------------
(* When replies come.                                                      *)

\* Its interceptors run one after another,
OneCoordinator == \A i, j \in Instance : i = j

\* and it waits longer than the engine may listen to its plugins after it has
\* looked elsewhere.
Timely == PollInterval + HookTimeout < CompactTimeout

Asked == [messages : Seq(Message), target : Target]

Polling == [at : {"compact", "estimate"}, left : 0 .. PollInterval]
Asking  == [at : {"hooks"}, left : Nat, elapsed : Nat, batch : Seq(Asked), count : Nat,
            skip : BOOLEAN, pinned : SUBSET Nat]

ReplyFits(reply, asked, target) ==
  /\ reply \in Reply
  /\ Carries(reply.messages, asked)
  /\ reply.strategy = "summarize_and_truncate" =>
       LeastCut(reply.messages, asked, reply.pinned, target)

WaitGood(w) ==
  /\ w \in Wait /\ Numbered(w.asked)
  /\ w.reply # Nothing => ReplyFits(w.reply, w.asked, w.target)

RequestGood(r) ==
  r \in Request /\ Numbered(r.asked) /\ ReplyFits(r.reply, r.asked, r.target)

AskedFor(w) == <<[messages |-> w.asked, target |-> w.target]>>

\* Nothing is under way; or a request waits in the queue, or with the plugins,
\* and there is time for what is left to do.
AtRest    == queue = <<>> /\ engine \in Polling
Queued(w) ==
  /\ queue = AskedFor(w) /\ engine \in Polling
  /\ w.left > HookTimeout + (IF engine.at = "estimate" THEN engine.left ELSE 0)
WithPlugins(w) ==
  /\ queue = <<>> /\ engine \in Asking /\ engine.batch = AskedFor(w)
  /\ engine.elapsed + engine.left <= HookTimeout /\ w.left + engine.elapsed > HookTimeout

TranscriptsGood ==
  transcript \in [Session -> Seq(Message)] /\ \A s \in Session : Numbered(transcript[s])
RequestsGood ==
  DOMAIN request = Instance /\ \A i \in Instance : request[i] # Nothing => RequestGood(request[i])
WaitsGood ==
  DOMAIN react = Instance /\ \A i \in Instance : react[i] # Nothing => WaitGood(react[i])
InTime ==
  /\ (\A i \in Instance : react[i] = Nothing) => AtRest
  /\ \A i \in Instance : react[i] # Nothing =>
       \/ AtRest
       \/ react[i].reply = Nothing /\ (Queued(react[i]) \/ WithPlugins(react[i]))

CompactionInv == TranscriptsGood /\ RequestsGood /\ WaitsGood /\ InTime

\* The times, as the provers need them.
LEMMA TimesAreNat ==
  /\ PollInterval \in Nat /\ HookTimeout \in Nat /\ CompactTimeout \in Nat
  /\ IdleGrace \in Nat /\ FirstResponse \in Nat /\ MaxResponses \in Nat /\ KeepRecent \in Nat
BY CompactionAssumption

\* The engine never listens longer than it may.
LEMMA ListensInTime ==
  ASSUME NEW count \in Nat, NEW elapsed \in Nat, elapsed <= HookTimeout
  PROVE  RecvTimeout(count, elapsed) \in Nat /\ elapsed + RecvTimeout(count, elapsed) <= HookTimeout
BY TimesAreNat DEF RecvTimeout, Least

LEMMA ListeningIsPolling ==
  \A at \in {"compact", "estimate"} :
    Listening(at) \in Polling /\ Listening(at).at = at /\ Listening(at).left = PollInterval
BY TimesAreNat DEF Listening, Polling

LEMMA PollingIsNotAsking ==
  /\ \A e \in Polling : e.at \in {"compact", "estimate"} /\ e.left \in 0 .. PollInterval
  /\ \A e \in Asking : e.at = "hooks" /\ e.left \in Nat /\ e.elapsed \in Nat
BY DEF Polling, Asking

\* A transcript that is not cut fits its own request, so does the reply of
\* the engine.
LEMMA UnchangedFits ==
  ASSUME NEW asked \in Seq(Message), NEW target
  PROVE  ReplyFits(Unchanged(asked), asked, target)
<1>1. Unchanged(asked) \in Reply /\ Unchanged(asked).messages = asked
      /\ Unchanged(asked).strategy # "summarize_and_truncate"
  BY DEF Unchanged, Reply
<1>2. \A k \in DOMAIN asked : Contains(asked, asked[k])
  <2>1. DOMAIN asked = 1 .. Len(asked)
    BY LenProperties
  <2> QED BY <2>1 DEF Contains
<1>3. Carries(asked, asked)
  BY <1>2 DEF Carries
<1> QED BY <1>1, <1>3 DEF ReplyFits

LEMMA CompactedFits ==
  ASSUME NEW w, WaitGood(w), WithPlugins(w)
  PROVE  ReplyFits(Compacted, w.asked, w.target)
<1>1. PICK asked \in Seq(Message), target \in Nat : asked = w.asked /\ target = w.target /\ Numbered(asked)
  BY CompactionAssumption DEF WaitGood, Wait
<1>2. Head(engine.batch) = [messages |-> asked, target |-> target]
  BY <1>1 DEF WithPlugins, AskedFor
<1>3. engine.pinned \in SUBSET Nat
  BY DEF WithPlugins, Asking
<1>4. CASE engine.skip
  <2>1. Compacted = [messages |-> asked, strategy |-> "skipped", pinned |-> engine.pinned]
    BY <1>2, <1>4 DEF Compacted
  <2>2. Compacted \in Reply /\ Compacted.messages = asked /\ Compacted.strategy = "skipped"
    BY <1>3, <2>1 DEF Reply
  <2>3. Carries(asked, asked)
    BY UnchangedFits DEF ReplyFits, Unchanged
  <2> QED BY <1>1, <2>2, <2>3 DEF ReplyFits
<1>5. CASE ~engine.skip
  <2>1. PICK cut \in Seq(Message) : cut = Truncated(asked, target, engine.pinned)
    BY CutCarries
  <2>2. Carries(cut, asked) /\ LeastCut(cut, asked, engine.pinned, target)
    BY <1>1, <2>1, CutCarries, CutIsLeast
  <2>3. Compacted = [messages |-> cut, strategy |-> "summarize_and_truncate", pinned |-> engine.pinned]
    BY <1>2, <1>5, <2>1 DEF Compacted
  <2>4. /\ Compacted \in Reply /\ Compacted.messages = cut /\ Compacted.pinned = engine.pinned
    BY <1>3, <2>3 DEF Reply
  <2> QED BY <1>1, <2>2, <2>4 DEF ReplyFits
<1> QED BY <1>4, <1>5

LEMMA NothingApart ==
  /\ \A r \in Reply : r # Nothing
  /\ \A w \in Wait : w # Nothing
  /\ \A r \in Request : r # Nothing
BY NothingIsApart

\* At first nobody waits and nothing is sent. Then, one lemma per action:
\* what is appended to a transcript changes no request,
LEMMA StartsInv == CompactionInit => CompactionInv
<1> SUFFICES ASSUME CompactionInit
             PROVE  CompactionInv
  OBVIOUS
<1>1. TranscriptsGood
  <2>1. <<>> \in Seq(Message) /\ Numbered(<<>>)
    BY DEF Numbered
  <2> QED BY <2>1 DEF CompactionInit, TranscriptsGood
<1>2. RequestsGood /\ WaitsGood
  BY DEF CompactionInit, RequestsGood, WaitsGood
<1>3. AtRest
  BY ListeningIsPolling DEF CompactionInit, AtRest
<1>4. InTime
  BY <1>3 DEF CompactionInit, InTime
<1> QED BY <1>1, <1>2, <1>4 DEF CompactionInv

\* A turn says something, or sends what it has.
LEMMA SayKeepsInv ==
  ASSUME CompactionInv, NEW s \in Session, NEW size \in Size, Say(s, size)
  PROVE  CompactionInv'
<1>1. PICK log \in Seq(Message) : log = transcript[s] /\ Numbered(log)
  BY DEF CompactionInv, TranscriptsGood
<1>2. PICK n \in Nat : n = Len(log) /\ DOMAIN log = 1 .. n
  BY LenProperties
<1>3. PICK m \in Message : m = [of |-> s, n |-> n + 1, size |-> size]
  <2>1. n + 1 \in Nat
    OBVIOUS
  <2>2. [of |-> s, n |-> n + 1, size |-> size] \in Message
    BY <2>1 DEF Message
  <2> QED BY <2>2
<1>4. m.n = n + 1
  BY <1>3
<1>5. PICK new \in Seq(Message) :
        /\ new = Append(log, m) /\ DOMAIN new = 1 .. n + 1
        /\ new[n + 1] = m /\ \A k \in 1 .. n : new[k] = log[k]
  <2>1. /\ Append(log, m) \in Seq(Message) /\ DOMAIN Append(log, m) = 1 .. Len(log) + 1
        /\ Append(log, m)[Len(log) + 1] = m
        /\ \A k \in 1 .. Len(log) : Append(log, m)[k] = log[k]
    BY AppendProperties
  <2> QED BY <1>2, <2>1
<1>6. Numbered(new)
  <2>1. ASSUME NEW k \in 1 .. n + 1
        PROVE  new[k].n = k
    <3>1. CASE k = n + 1
      BY <1>4, <1>5, <3>1
    <3>2. CASE k \in 1 .. n
      BY <1>1, <1>2, <1>5, <3>2 DEF Numbered
    <3> QED BY <3>1, <3>2
  <2> QED BY <1>5, <2>1 DEF Numbered
<1>7. transcript' = [transcript EXCEPT ![s] = new]
  BY <1>1, <1>2, <1>3, <1>5 DEF Say
<1>8. TranscriptsGood'
  BY <1>6, <1>7 DEF CompactionInv, TranscriptsGood
<1>9. RequestsGood' /\ WaitsGood' /\ InTime'
  BY DEF Say, CompactionInv, RequestsGood, WaitsGood, InTime, AtRest, Queued, WithPlugins
<1> QED BY <1>8, <1>9 DEF CompactionInv

\* what is sent uncut carries all there is,
LEMMA SendUncutKeepsInv ==
  ASSUME CompactionInv, NEW i \in Instance, NEW s \in Session, SendUncut(i, s)
  PROVE  CompactionInv'
<1>1. PICK log \in Seq(Message) : log = transcript[s] /\ Numbered(log)
  BY DEF CompactionInv, TranscriptsGood
<1>2. PICK r : r = [asked |-> log, target |-> 0, reply |-> Unchanged(log)]
  OBVIOUS
<1>3. RequestGood(r)
  <2>1. ReplyFits(Unchanged(log), log, 0)
    BY UnchangedFits
  <2> QED BY <1>1, <1>2, <2>1 DEF RequestGood, Request, ReplyFits
<1>4. request' = [request EXCEPT ![i] = r]
  BY <1>1, <1>2 DEF SendUncut, Publishes
<1>5. RequestsGood'
  BY <1>3, <1>4 DEF CompactionInv, RequestsGood
<1>6. TranscriptsGood' /\ WaitsGood' /\ InTime'
  BY DEF SendUncut, CompactionInv, TranscriptsGood, WaitsGood, InTime, AtRest, Queued, WithPlugins
<1> QED BY <1>5, <1>6 DEF CompactionInv

\* One wait at most.
LEMMA OnlyWait ==
  ASSUME OneCoordinator, NEW i \in Instance, NEW F, DOMAIN F = Instance
  PROVE  \A j \in Instance : F[j] = F[i] /\ j = i
BY DEF OneCoordinator

\* a coordinator that starts to wait finds the engine at rest,
LEMMA CompactKeepsInv ==
  ASSUME OneCoordinator, Timely, CompactionInv,
         NEW i \in Instance, NEW s \in Session, NEW target \in Target, Compact(i, s, target)
  PROVE  CompactionInv'
<1>1. PICK log \in Seq(Message) : log = transcript[s] /\ Numbered(log)
  BY DEF CompactionInv, TranscriptsGood
<1>2. PICK w : w = [session |-> s, asked |-> log, target |-> target,
                    left |-> CompactTimeout, reply |-> Nothing]
  OBVIOUS
<1>3. w \in Wait /\ WaitGood(w) /\ w # Nothing /\ w.reply = Nothing
  <2>1. w \in Wait
    BY <1>1, <1>2, TimesAreNat DEF Wait
  <2> QED BY <1>1, <1>2, <2>1, NothingApart DEF WaitGood
<1>4. react' = [react EXCEPT ![i] = w]
  BY <1>1, <1>2 DEF Compact
<1>5. \A j \in Instance : j = i
  BY DEF OneCoordinator
<1>6. AtRest
  BY <1>5 DEF Compact, CompactionInv, InTime
<1>7. queue' = AskedFor(w)
  BY <1>1, <1>2, <1>6 DEF Compact, AtRest, AskedFor
<1>8. Queued(w)'
  <2>1. engine' = engine /\ engine \in Polling /\ w.left = CompactTimeout
    BY <1>2, <1>6 DEF Compact, AtRest
  <2>2. engine.left \in 0 .. PollInterval
    BY <2>1, PollingIsNotAsking
  <2>3. CompactTimeout > HookTimeout + (IF engine.at = "estimate" THEN engine.left ELSE 0)
    BY <2>2, TimesAreNat DEF Timely
  <2> QED BY <1>7, <2>1, <2>3 DEF Queued
<1>9. react'[i] = w /\ DOMAIN react' = Instance
  BY <1>4 DEF CompactionInv, WaitsGood
<1>10. WaitsGood' /\ InTime'
  BY <1>3, <1>5, <1>8, <1>9 DEF WaitsGood, InTime
<1>11. TranscriptsGood' /\ RequestsGood'
  BY DEF Compact, CompactionInv, TranscriptsGood, RequestsGood
<1> QED BY <1>10, <1>11 DEF CompactionInv

\* and one that ends its wait has its reply, or leaves the engine at rest;
LEMMA SendKeepsInv ==
  ASSUME OneCoordinator, CompactionInv, NEW i \in Instance, Send(i)
  PROVE  CompactionInv'
<1>1. PICK w \in Wait : w = react[i] /\ w # Nothing /\ WaitGood(w)
  BY DEF Send, CompactionInv, WaitsGood, WaitGood
<1>2. w.left \in Nat /\ w.asked \in Seq(Message) /\ w.target \in Nat /\ Numbered(w.asked)
  BY <1>1, CompactionAssumption DEF Wait, WaitGood
<1>3. AtRest
  <2>1. CASE w.reply # Nothing
    BY <1>1, <2>1 DEF CompactionInv, InTime
  <2>2. CASE w.reply = Nothing
    <3>1. w.left = 0
      BY <1>1, <2>2 DEF Send
    <3>2. ~Queued(w)
      <4>1. engine \in Polling => engine.left \in 0 .. PollInterval
        BY PollingIsNotAsking
      <4> QED BY <3>1, <4>1, TimesAreNat DEF Queued
    <3>3. ~WithPlugins(w)
      <4>1. engine \in Asking => engine.elapsed \in Nat /\ engine.left \in Nat
        BY PollingIsNotAsking
      <4> QED BY <3>1, <4>1, TimesAreNat DEF WithPlugins
    <3> QED BY <1>1, <3>2, <3>3 DEF CompactionInv, InTime
  <2> QED BY <2>1, <2>2
<1>4. PICK reply \in Reply :
        /\ ReplyFits(reply, w.asked, w.target)
        /\ request' = [request EXCEPT ![i] = [asked |-> w.asked, target |-> w.target, reply |-> reply]]
  <2>1. CASE w.reply # Nothing
    <3>1. w.reply \in Reply /\ ReplyFits(w.reply, w.asked, w.target)
      BY <1>1, <2>1 DEF WaitGood, ReplyFits
    <3> QED BY <1>1, <2>1, <3>1 DEF Send, Publishes
  <2>2. CASE w.reply = Nothing
    <3>1. ReplyFits(Unchanged(w.asked), w.asked, w.target) /\ Unchanged(w.asked) \in Reply
      BY <1>2, UnchangedFits DEF ReplyFits
    <3> QED BY <1>1, <2>2, <3>1 DEF Send, Publishes
  <2> QED BY <2>1, <2>2
<1>5. PICK r \in Request : /\ r = [asked |-> w.asked, target |-> w.target, reply |-> reply]
                           /\ RequestGood(r)
  <2>1. [asked |-> w.asked, target |-> w.target, reply |-> reply] \in Request
    BY <1>2 DEF Request
  <2> QED BY <1>2, <1>4, <2>1 DEF RequestGood
<1>6. RequestsGood'
  BY <1>4, <1>5 DEF CompactionInv, RequestsGood
<1>7. react' = [react EXCEPT ![i] = Nothing]
  BY DEF Send
<1>8. transcript' = transcript /\ queue' = queue /\ engine' = engine
  BY DEF Send
<1>9. WaitsGood' /\ InTime'
  BY <1>3, <1>7, <1>8 DEF CompactionInv, WaitsGood, InTime, AtRest
<1>10. TranscriptsGood'
  BY <1>8 DEF CompactionInv, TranscriptsGood
<1> QED BY <1>6, <1>9, <1>10 DEF CompactionInv

\* the engine has time enough when it asks its plugins,
LEMMA TakeBatchKeepsInv ==
  ASSUME OneCoordinator, CompactionInv, TakeBatch
  PROVE  CompactionInv'
<1>1. ~AtRest
  BY DEF TakeBatch, AtRest
<1>2. PICK i \in Instance : react[i] # Nothing
  BY <1>1 DEF CompactionInv, InTime
<1>3. PICK w \in Wait : w = react[i] /\ WaitGood(w) /\ w.reply = Nothing
  BY <1>1, <1>2 DEF CompactionInv, WaitsGood, WaitGood, InTime
<1>4. Queued(w)
  BY <1>1, <1>2, <1>3 DEF CompactionInv, InTime, WithPlugins, TakeBatch
<1>5. w.asked \in Seq(Message) /\ w.target \in Target /\ w.left \in Nat
  BY DEF Wait
<1>6. AskedFor(w) \in Seq(Asked) /\ AskedFor(w) # <<>>
  BY <1>5 DEF AskedFor, Asked
<1>7. PICK left \in Nat : left = RecvTimeout(0, 0) /\ left <= HookTimeout
  BY ListensInTime, TimesAreNat
<1>8. engine' = [at |-> "hooks", left |-> left, elapsed |-> 0, batch |-> AskedFor(w),
                 count |-> 0, skip |-> FALSE, pinned |-> {}]
  BY <1>4, <1>6, <1>7 DEF TakeBatch, FanOut, Queued
<1>9. engine' \in Asking /\ engine'.batch = AskedFor(w) /\ engine'.elapsed = 0 /\ engine'.left = left
  BY <1>6, <1>8 DEF Asking
<1>10. w.left > HookTimeout
  BY <1>4, <1>5, TimesAreNat DEF Queued, TakeBatch
<1>11. WithPlugins(w)'
  BY <1>5, <1>7, <1>9, <1>10, TimesAreNat DEF WithPlugins, TakeBatch
<1>12. UNCHANGED <<transcript, react, request>>
  BY DEF TakeBatch
<1>13. InTime'
  BY <1>2, <1>3, <1>11, <1>12 DEF InTime, OneCoordinator
<1> QED BY <1>12, <1>13 DEF CompactionInv, TranscriptsGood, RequestsGood, WaitsGood

\* when it looks elsewhere,
LEMMA PollEndsKeepsInv ==
  ASSUME CompactionInv, PollEnds
  PROVE  CompactionInv'
<1>1. UNCHANGED <<transcript, react, queue, request>>
  BY DEF PollEnds
<1>2. engine' \in Polling /\ engine'.at \in {"compact", "estimate"} /\ engine.at # "hooks"
  BY ListeningIsPolling DEF PollEnds
<1>3. AtRest => AtRest'
  BY <1>1, <1>2 DEF AtRest
<1>4. ASSUME NEW w \in Wait, Queued(w)
      PROVE  Queued(w)'
  <2>1. queue # <<>>
    BY <1>4 DEF Queued, AskedFor
  <2>2. engine.at = "estimate" /\ engine' = Listening("compact")
    BY <2>1 DEF PollEnds
  <2>3. engine.left \in Nat /\ w.left \in Nat
    BY <1>4, PollingIsNotAsking, TimesAreNat DEF Queued, Wait
  <2>4. w.left > HookTimeout + engine.left
    BY <1>4, <2>2 DEF Queued
  <2>5. engine'.at = "compact"
    BY <2>2, ListeningIsPolling
  <2> QED BY <1>1, <1>2, <1>4, <2>3, <2>4, <2>5, TimesAreNat DEF Queued, AskedFor
<1>5. \A w : ~WithPlugins(w)
  BY <1>2 DEF WithPlugins, Asking
<1>6. InTime'
  BY <1>1, <1>3, <1>4, <1>5 DEF CompactionInv, InTime, WaitsGood, WaitGood
<1> QED BY <1>1, <1>6 DEF CompactionInv, TranscriptsGood, RequestsGood, WaitsGood

\* and however often they reply;
LEMMA PluginRepliesKeepsInv ==
  ASSUME CompactionInv, NEW skip \in BOOLEAN, NEW pinned \in SUBSET (1 .. MaxMessages),
         PluginReplies(skip, pinned)
  PROVE  CompactionInv'
<1>1. UNCHANGED <<transcript, react, queue, request>> /\ engine.at = "hooks"
  BY DEF PluginReplies
<1>2. ~AtRest /\ \A w : ~Queued(w)
  BY <1>1 DEF AtRest, Queued, Polling
<1>3. ASSUME NEW w \in Wait, WithPlugins(w)
      PROVE  WithPlugins(w)'
  <2>1. engine \in Asking
    BY <1>3 DEF WithPlugins
  <2>2. PICK count \in Nat :
          engine' = [engine EXCEPT !.count = count, !.skip = @ \/ skip, !.pinned = @ \cup pinned,
                                   !.left = RecvTimeout(count, engine.elapsed)]
    <3>1. engine.count \in Nat
      BY <2>1 DEF Asking
    <3>2. PICK count \in Nat : count = engine.count + (IF skip \/ pinned # {} THEN 1 ELSE 0)
      BY <3>1
    <3> QED BY <3>2 DEF PluginReplies
  <2>3. engine.elapsed \in Nat /\ engine.elapsed <= HookTimeout
    BY <1>3, <2>1, TimesAreNat DEF WithPlugins, Asking
  <2>4. PICK left \in Nat : left = RecvTimeout(count, engine.elapsed)
                            /\ engine.elapsed + left <= HookTimeout
    BY <2>3, ListensInTime
  <2>5. PICK more \in BOOLEAN, all \in SUBSET Nat :
          engine' = [engine EXCEPT !.count = count, !.skip = more, !.pinned = all, !.left = left]
    <3>1. engine.skip \in BOOLEAN /\ engine.pinned \in SUBSET Nat
      BY <2>1 DEF Asking
    <3>2. (engine.skip \/ skip) \in BOOLEAN
      <4>1. CASE engine.skip \/ skip
        <5>1. (engine.skip \/ skip) = TRUE
          BY <4>1
        <5> QED BY <5>1
      <4>2. CASE ~ (engine.skip \/ skip)
        <5>1. (engine.skip \/ skip) = FALSE
          BY <4>2
        <5> QED BY <5>1
      <4> QED BY <4>1, <4>2
    <3>3. (engine.pinned \cup pinned) \in SUBSET Nat
      <4>1. pinned \in SUBSET Nat
        BY CompactionAssumption
      <4>2. \A x, y \in SUBSET Nat : (x \cup y) \in SUBSET Nat
        OBVIOUS
      <4> QED BY <3>1, <4>1, <4>2
    <3> QED BY <2>2, <2>4, <3>2, <3>3
  <2>6. engine' \in Asking /\ engine'.batch = engine.batch /\ engine'.elapsed = engine.elapsed
        /\ engine'.left = left
    BY <2>1, <2>5 DEF Asking
  <2> QED BY <1>1, <1>3, <2>4, <2>6 DEF WithPlugins, AskedFor
<1>4. InTime'
  BY <1>1, <1>2, <1>3 DEF CompactionInv, InTime, WaitsGood, WaitGood
<1> QED BY <1>1, <1>4 DEF CompactionInv, TranscriptsGood, RequestsGood, WaitsGood

\* what it answers fits the request that waits.
LEMMA AnswerKeepsInv ==
  ASSUME OneCoordinator, CompactionInv, Answer
  PROVE  CompactionInv'
<1>1. UNCHANGED <<transcript, queue, request>> /\ engine.at = "hooks"
  BY DEF Answer
<1>2. ~AtRest /\ \A w : ~Queued(w)
  BY <1>1 DEF AtRest, Queued, Polling
<1>3. PICK i \in Instance : react[i] # Nothing
  BY <1>2 DEF CompactionInv, InTime
<1>4. PICK w \in Wait : w = react[i] /\ WaitGood(w) /\ w.reply = Nothing /\ WithPlugins(w)
  BY <1>2, <1>3 DEF CompactionInv, WaitsGood, WaitGood, InTime
<1>5. AtRest'
  <2>1. Tail(engine.batch) = <<>>
    BY <1>4 DEF WithPlugins, AskedFor
  <2>2. engine' = Listening("estimate")
    BY <2>1 DEF Answer, FanOut
  <2> QED BY <1>1, <1>4, <2>2, ListeningIsPolling DEF AtRest, WithPlugins
<1>6. PICK reply \in Reply : reply = Compacted /\ ReplyFits(reply, w.asked, w.target)
  BY <1>4, CompactedFits DEF ReplyFits
<1>7. PICK v : v = [w EXCEPT !.reply = reply]
  OBVIOUS
<1>8. v \in Wait /\ WaitGood(v)
  <2>1. v \in Wait /\ v.asked = w.asked /\ v.target = w.target /\ v.reply = reply
    BY <1>7 DEF Wait
  <2> QED BY <1>4, <1>6, <2>1 DEF WaitGood
<1>9. \A j \in Instance : j = i
  BY DEF OneCoordinator
<1>10. DOMAIN react' = Instance /\ react'[i] \in {w, v}
  <2>1. CASE UNCHANGED react
    BY <1>4, <2>1 DEF CompactionInv, WaitsGood
  <2>2. CASE react' = [j \in Instance |-> IF react[j] # Nothing /\ react[j].reply = Nothing
                                            THEN [react[j] EXCEPT !.reply = Compacted] ELSE react[j]]
    BY <1>3, <1>4, <1>6, <1>7, <2>2
  <2> QED BY <2>1, <2>2 DEF Answer
<1>11. WaitsGood'
  <2>1. ASSUME NEW j \in Instance
        PROVE  WaitGood(react'[j])
    <3>1. j = i
      BY <1>9
    <3> QED BY <1>4, <1>8, <1>10, <3>1
  <2>2. ASSUME NEW j \in Instance
        PROVE  WaitGood(react[j])'
    BY <2>1 DEF WaitGood, Wait
  <2>3. DOMAIN react' = Instance
    BY <1>10
  <2> QED BY <2>2, <2>3 DEF WaitsGood
<1>12. InTime'
  BY <1>5 DEF InTime
<1>13. TranscriptsGood' /\ RequestsGood'
  BY <1>1 DEF CompactionInv, TranscriptsGood, RequestsGood
<1> QED BY <1>11, <1>12, <1>13 DEF CompactionInv

\* An hour less to wait for everyone.
LEMMA TickKeepsInv ==
  ASSUME OneCoordinator, CompactionInv, Tick
  PROVE  CompactionInv'
<1>1. UNCHANGED <<transcript, queue, request>> /\ engine.left > 0
  BY DEF Tick
<1>2. /\ engine \in Polling =>
           /\ engine' \in Polling /\ engine'.at = engine.at /\ engine'.left = engine.left - 1
           /\ engine.left \in Nat
      /\ engine \in Asking =>
           /\ engine' \in Asking /\ engine'.batch = engine.batch
           /\ engine'.left = engine.left - 1 /\ engine'.elapsed = engine.elapsed + 1
           /\ engine.left \in Nat /\ engine.elapsed \in Nat
  <2>1. CASE engine \in Polling
    <3>1. engine.at # "hooks" /\ engine.left \in 0 .. PollInterval /\ engine \notin Asking
      BY <2>1, PollingIsNotAsking
    <3>2. engine' = [engine EXCEPT !.left = engine.left - 1]
      BY <3>1 DEF Tick
    <3>3. engine.left - 1 \in 0 .. PollInterval
      BY <1>1, <3>1, TimesAreNat
    <3> QED BY <2>1, <3>1, <3>2, <3>3, TimesAreNat DEF Polling
  <2>2. CASE engine \in Asking
    <3>1. engine.at = "hooks" /\ engine.left \in Nat /\ engine.elapsed \in Nat /\ engine \notin Polling
      BY <2>2, PollingIsNotAsking
    <3>2. engine' = [engine EXCEPT !.left = engine.left - 1, !.elapsed = engine.elapsed + 1]
      BY <3>1 DEF Tick
    <3>3. engine.left - 1 \in Nat /\ engine.elapsed + 1 \in Nat
      BY <1>1, <3>1
    <3> QED BY <2>2, <3>1, <3>2, <3>3 DEF Asking
  <2> QED BY <2>1, <2>2
<1>3. AtRest => AtRest'
  BY <1>1, <1>2 DEF AtRest
<1>4. CASE \A i \in Instance : react[i] = Nothing
  <2>1. AtRest'
    BY <1>3, <1>4 DEF CompactionInv, InTime
  <2>2. \A i \in Instance : react'[i] = Nothing
    BY <1>4 DEF Tick
  <2>3. DOMAIN react' = Instance
    BY DEF Tick
  <2>4. WaitsGood' /\ InTime'
    BY <2>1, <2>2, <2>3 DEF WaitsGood, InTime
  <2> QED BY <1>1, <2>4 DEF CompactionInv, TranscriptsGood, RequestsGood
<1>5. CASE \E i \in Instance : react[i] # Nothing
  <2>1. PICK i \in Instance : react[i] # Nothing
    BY <1>5
  <2>2. PICK w \in Wait : w = react[i] /\ WaitGood(w) /\ w.reply = Nothing /\ w.left > 0
    BY <2>1 DEF CompactionInv, WaitsGood, WaitGood, Tick
  <2>3. PICK v : v = [w EXCEPT !.left = w.left - 1]
    OBVIOUS
  <2>4. w.left \in Nat
    BY DEF Wait
  <2>5. v \in Wait /\ v.left = w.left - 1 /\ v.asked = w.asked /\ v.target = w.target /\ v.reply = Nothing
    <3>1. w.left - 1 \in Nat
      BY <2>2, <2>4
    <3> QED BY <2>2, <2>3, <3>1 DEF Wait
  <2>6. WaitGood(v)
    BY <2>2, <2>5 DEF WaitGood
  <2>7. \A j \in Instance : j = i
    BY DEF OneCoordinator
  <2>8. react'[i] = v /\ DOMAIN react' = Instance
    BY <2>1, <2>2, <2>3 DEF Tick
  <2>9. AtRest' \/ Queued(v)' \/ WithPlugins(v)'
    <3>1. CASE AtRest
      BY <1>3, <3>1
    <3>2. CASE Queued(w)
      <4>1. queue # <<>> /\ engine \in Polling
        BY <3>2 DEF Queued, AskedFor
      <4>2. engine.at = "estimate"
        BY <4>1, PollingIsNotAsking DEF Tick
      <4>3. w.left > HookTimeout + engine.left
        BY <3>2, <4>2 DEF Queued
      <4>4. v.left > HookTimeout + (engine.left - 1)
        BY <1>2, <2>4, <2>5, <4>1, <4>3, TimesAreNat
      <4> QED BY <1>1, <1>2, <2>5, <3>2, <4>1, <4>2, <4>4 DEF Queued, AskedFor
    <3>3. CASE WithPlugins(w)
      <4>1. engine \in Asking
        BY <3>3 DEF WithPlugins
      <4>2. /\ (engine.elapsed + 1) + (engine.left - 1) <= HookTimeout
            /\ v.left + (engine.elapsed + 1) > HookTimeout
        BY <1>2, <2>4, <2>5, <3>3, <4>1, TimesAreNat DEF WithPlugins
      <4> QED BY <1>1, <1>2, <2>5, <3>3, <4>1, <4>2 DEF WithPlugins, AskedFor
    <3> QED BY <2>1, <2>2, <3>1, <3>2, <3>3 DEF CompactionInv, InTime
  <2>10. v # Nothing
    BY <2>5, NothingApart
  <2>11. WaitsGood'
    <3>1. ASSUME NEW j \in Instance
          PROVE  WaitGood(react'[j])
      BY <2>6, <2>7, <2>8
    <3>2. \A x : WaitGood(x)' <=> WaitGood(x)
      BY DEF WaitGood, Wait
    <3> QED BY <2>8, <3>1, <3>2 DEF WaitsGood
  <2>12. InTime'
    <3>1. ~ \A j \in Instance : react'[j] = Nothing
      BY <2>8, <2>10
    <3>2. ASSUME NEW j \in Instance
          PROVE  react'[j] = v
      BY <2>7, <2>8
    <3>3. ASSUME NEW j \in Instance
          PROVE  \/ AtRest'
                 \/ react'[j].reply = Nothing /\ (Queued(react[j])' \/ WithPlugins(react[j])')
      <4>1. react'[j] = v
        BY <3>2
      <4>2. (Queued(v)' => Queued(react[j])') /\ (WithPlugins(v)' => WithPlugins(react[j])')
        BY <4>1 DEF Queued, WithPlugins
      <4>3. react'[j].reply = Nothing
        BY <2>5, <4>1
      <4>4. CASE Queued(v)'
        BY <4>2, <4>3, <4>4
      <4>5. CASE WithPlugins(v)'
        BY <4>2, <4>3, <4>5
      <4> QED BY <2>9, <4>4, <4>5
    <3> QED BY <3>1, <3>3 DEF InTime
  <2> QED BY <1>1, <2>11, <2>12 DEF CompactionInv, TranscriptsGood, RequestsGood
<1> QED BY <1>4, <1>5

LEMMA CompactionStep ==
  ASSUME OneCoordinator, Timely, CompactionInv, [CompactionNext]_compactionVars
  PROVE  CompactionInv'
<1>1. CASE UNCHANGED compactionVars
  BY <1>1 DEF compactionVars, CompactionInv, TranscriptsGood, RequestsGood, WaitsGood, InTime,
              AtRest, Queued, WithPlugins
<1>2. CASE CompactionNext
  BY <1>2, SayKeepsInv, SendUncutKeepsInv, CompactKeepsInv, SendKeepsInv, TakeBatchKeepsInv,
     PollEndsKeepsInv, PluginRepliesKeepsInv, AnswerKeepsInv, TickKeepsInv DEF CompactionNext
<1> QED BY <1>1, <1>2

\* A request to a provider carries its own turn's transcript, the recent
\* messages whole, on a coordinator whose interceptors run one after another and
\* that waits longer than the engine may take (publish_llm_request,
\* compact_messages): no reply, though it names no request, outlives its wait.
THEOREM RequestsCarryTheirTranscripts ==
  ASSUME OneCoordinator, Timely
  PROVE  CompactionSpec => []OwnTranscript
<1>1. CompactionInv => OwnTranscript
  BY DEF CompactionInv, RequestsGood, RequestGood, ReplyFits, OwnTranscript
<1>2. CompactionInv /\ [CompactionNext]_compactionVars => CompactionInv'
  BY CompactionStep
<1> QED BY <1>1, <1>2, StartsInv, PTL DEF CompactionSpec

\* What summarize_and_truncate cuts of a transcript of any length, whatever its
\* messages' sizes and pins and whatever the target, is the least: the recent
\* and the pinned stay, the oldest of the others go, and no more than the target
\* asks for; and that is what a request carries that was cut.
THEOREM CutsAreLeast ==
  ASSUME OneCoordinator, Timely
  PROVE  CompactionSpec => []CutToFit
<1>1. CompactionInv => CutToFit
  BY DEF CompactionInv, RequestsGood, RequestGood, ReplyFits, CutToFit
<1>2. CompactionInv /\ [CompactionNext]_compactionVars => CompactionInv'
  BY CompactionStep
<1> QED BY <1>1, <1>2, StartsInv, PTL DEF CompactionSpec
=============================================================================
