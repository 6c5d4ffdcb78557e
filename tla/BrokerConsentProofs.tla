------------------------ MODULE BrokerConsentProofs ------------------------
(***************************************************************************)
(* Consent in the MCP broker, for any number of calls, requests and        *)
(* capsules: a capsule is used only if the human allowed it, of the        *)
(* prompts for one capsule at most one counts, and a tool that asked hears *)
(* what the human answered.                                                *)
(*                                                                         *)
(* The markers (mcp.grant.pending.<capsule>) carry the weight.  An answer  *)
(* is matched with a marker by the id of a request, ids are used again,    *)
(* prompts outlive markers and answers outlive both: what has to be        *)
(* invariant is whose ids may be alike.                                    *)
(***************************************************************************)
EXTENDS BrokerConsent, FiniteSetTheorems, SequenceTheorems, TLAPS

Prompt ==
  [kind : {"ingress"}]
  \cup [kind : {"approval"}, req : Request, call : Call]
  \cup [kind : {"grant"}, req : Request, capsule : Capsule, live : BOOLEAN]
Mail   == [prompt : Prompt, yes : BOOLEAN]
Marker == [req : Request, fresh : BOOLEAN]
Waiter == [capsule : Capsule, call : Call, grant : BOOLEAN]
Tool   == [capsule : Capsule, state : {"sent", "parked"} \cup AtWork]
Broker == [call : Call, leg : {"dispatch", "resume"}, signals : Seq(Request), result : BOOLEAN]

TypesGood ==
  /\ decision \subseteq Capsule /\ granted \subseteq Capsule
  /\ marker \in [Capsule -> Marker \cup {None}]
  /\ waiter \in [Request -> Waiter \cup {None}]
  /\ tool \in [Call -> Tool \cup {None}]
  /\ broker \in Broker \cup {None}
  /\ prompts \subseteq Prompt /\ mail \subseteq Mail
  /\ said = [capsules |-> said.capsules, evicted |-> said.evicted]

\* The prompts in front of the human and those that were answered.
Asked == prompts \cup {m.prompt : m \in mail}
Grants(S) == {p \in S : p.kind = "grant"}
Approvals(S) == {p \in S : p.kind = "approval"}

\* The requests the broker was sent on the topic it watches wait for their
\* answer, and nobody was asked about them.
SignalsGood ==
  broker # None => \A r \in Range(broker.signals) :
    /\ ~Settled(r)
    /\ \A p \in Grants(Asked) \cup Approvals(Asked) : p.req # r
    /\ \A k \in Capsule : Pending(k) => marker[k].req # r

\* A prompt is about the one who waits for its answer, if anyone still does.
PromptsGood ==
  /\ \A p \in Grants(Asked) : ~Settled(p.req) =>
       waiter[p.req].grant /\ waiter[p.req].capsule = p.capsule
  /\ \A p \in Approvals(Asked) : ~Settled(p.req) => ~waiter[p.req].grant

\* A marker that counts is about one prompt for its capsule, which counts too;
\* a prompt in front of the human that counts has such a marker; no two prompts
\* are about the same request.
MarkersGood ==
  /\ \A k \in Capsule : Pending(k) =>
       \A p \in Grants(Asked) : p.req = marker[k].req => p.capsule = k /\ p.live
  /\ \A p \in Grants(prompts) : p.live => Paired(p)
  /\ \A p \in Grants(prompts), q \in Grants(Asked) : p.req = q.req => p = q
  /\ \A m \in mail : m.prompt \notin Grants(prompts)

\* A tool that waits for an answer is parked, and waits for one.
Asks(r) == ~Settled(r) /\ ~waiter[r].grant
ToolsGood ==
  \A r \in Request : Asks(r) =>
    LET n == waiter[r].call
    IN  /\ tool[n] # None /\ tool[n].state = "parked"
        /\ \A q \in Request : Asks(q) /\ waiter[q].call = n => q = r

\* What the human said to a prompt that counted is on record.
SaidGood ==
  /\ granted \cup decision \subseteq said.capsules
  /\ \A m \in mail : m.prompt.kind = "grant" /\ m.prompt.live /\ m.yes =>
       m.prompt.capsule \in said.capsules

ConsentInv ==
  TypesGood /\ SignalsGood /\ PromptsGood /\ MarkersGood /\ ToolsGood /\ SaidGood

-----------------------------------------------------------------------------
(* Prompts.                                                                *)

LEMMA PromptKinds ==
  /\ \A S : Grants(S) \subseteq S /\ Approvals(S) \subseteq S
  /\ \A S : S \subseteq Prompt =>
       /\ \A p \in Grants(S) : p \in [kind : {"grant"}, req : Request, capsule : Capsule,
                                      live : BOOLEAN]
       /\ \A p \in Approvals(S) : p \in [kind : {"approval"}, req : Request, call : Call]
BY DEF Grants, Approvals, Prompt

LEMMA AskedAre ==
  /\ prompts \subseteq Asked
  /\ \A m \in mail : m.prompt \in Asked
  /\ \A p \in Asked : p \in prompts \/ \E m \in mail : p = m.prompt
  /\ TypesGood => Asked \subseteq Prompt
BY DEF Asked, TypesGood, Mail

\* A request that is free is waited for by nobody, and nobody was asked about it.
LEMMA FreeIsFree ==
  ASSUME NEW r \in Request, FreeRequest(r)
  PROVE  /\ Settled(r)
         /\ broker # None => r \notin Range(broker.signals)
         /\ \A p \in Grants(Asked) \cup Approvals(Asked) : p.req # r
         /\ \A k \in Capsule : Pending(k) => marker[k].req # r
BY DEF FreeRequest, Prompting, Grants, Approvals, Asked, Pending

\* Of some requests one comes first.
LEMMA FirstRequest ==
  ASSUME NEW S \in SUBSET Request, S # {}
  PROVE  \E x \in S : \A y \in S : x <= y
<1> DEFINE Below(x) == {y \in S : y < x}
           T == {Below(x) : x \in S}
           R == StrictSubsetOrdering(S)
<1>1. IsFiniteSet(S) /\ S \subseteq Nat
  BY ConstantsAssumption, FS_Subset
<1>2. IsWellFoundedOn(R, SUBSET S)
  BY <1>1, FS_StrictSubsetOrderingWellFounded, FS_FiniteSubsetsOfFinite
<1>3. T \subseteq SUBSET S /\ T # {}
  OBVIOUS
<1>4. PICK u \in T : \A v \in T : <<v, u>> \notin R
  <2> HIDE DEF T, R
  <2> QED BY <1>2, <1>3, WFMin
<1>5. PICK x \in S : u = Below(x)
  BY <1>4
<1>6. ASSUME NEW y \in S, y < x
      PROVE  FALSE
  <2>1. \A z \in S : z < y => z < x
    BY <1>1, <1>6
  <2>2. Below(y) \subseteq Below(x)
    BY <2>1, Zenon
  <2>3. y \in Below(x) /\ y \notin Below(y)
    BY <1>1, <1>6
  <2>4. Below(y) \in T /\ Below(y) \in SUBSET S /\ Below(x) \in SUBSET S
    OBVIOUS
  <2>5. Below(y) # Below(x)
    BY <2>3
  <2>6. <<Below(y), Below(x)>> \in R
    <3> HIDE DEF Below
    <3> QED BY <2>2, <2>4, <2>5 DEF StrictSubsetOrdering
  <2> QED BY <1>4, <1>5, <2>4, <2>6
<1> QED BY <1>1, <1>6

\* What is raised is a request that was free.
LEMMA RaiseRaises ==
  ASSUME NEW n, NEW grant, Raise(n, grant)
  PROVE  \E r \in Request :
           /\ FreeRequest(r)
           /\ waiter' = [waiter EXCEPT ![r] =
                         [capsule |-> tool[n].capsule, call |-> n, grant |-> grant]]
           /\ broker' = IF broker # None /\ broker.leg = "dispatch"
                          THEN [broker EXCEPT !.signals = Append(@, r)] ELSE broker
<1>1. PICK free \in SUBSET Request : free = {r \in Request : FreeRequest(r)} /\ free # {}
  BY DEF Raise
<1>2. \E x \in free : \A y \in free : x <= y
  BY <1>1, FirstRequest
<1>3. PICK r \in free : r = CHOOSE x \in free : \A y \in free : x <= y
  BY <1>2
<1>4. /\ waiter' = [waiter EXCEPT ![r] =
                    [capsule |-> tool[n].capsule, call |-> n, grant |-> grant]]
      /\ broker' = IF broker # None /\ broker.leg = "dispatch"
                     THEN [broker EXCEPT !.signals = Append(@, r)] ELSE broker
  BY <1>1, <1>3 DEF Raise
<1> QED BY <1>1, <1>4

\* The broker surfaces something it was sent.
LEMMA SignalWasSent ==
  ASSUME TypesGood, NEW r \in Request, Signal(r)
  PROVE  broker # None /\ r \in Range(broker.signals)
BY DEF Signal, Range

\* An answer to a request reaches the one who waits, if anyone does.
LEMMA DecideDecides ==
  ASSUME TypesGood, NEW r \in Request, NEW yes \in BOOLEAN, Decide(r, yes)
  PROVE  /\ \A q \in Request : waiter'[q] = IF q = r THEN None ELSE waiter[q]
         /\ waiter' \in [Request -> Waiter \cup {None}]
         /\ granted' = granted \/
              (~Settled(r) /\ waiter[r].grant /\ yes
               /\ granted' = granted \cup {waiter[r].capsule})
         /\ Settled(r) \/ waiter[r].grant => tool' = tool
         /\ Asks(r) => tool' = [tool EXCEPT ![waiter[r].call].state =
                                  IF yes THEN "approved" ELSE "denied"]
<1>1. CASE Settled(r)
  BY <1>1 DEF Decide, Settled, host, TypesGood, Asks
<1>2. CASE ~Settled(r)
  <2>1. /\ waiter' = [waiter EXCEPT ![r] = None]
        /\ tool' = IF waiter[r].grant THEN tool
                   ELSE [tool EXCEPT ![waiter[r].call].state =
                           IF yes THEN "approved" ELSE "denied"]
        /\ granted' = IF waiter[r].grant /\ yes THEN granted \cup {waiter[r].capsule}
                      ELSE granted
    BY <1>2 DEF Decide
  <2>2. waiter \in [Request -> Waiter \cup {None}]
    BY DEF TypesGood
  <2>3. /\ \A q \in Request : waiter'[q] = IF q = r THEN None ELSE waiter[q]
        /\ waiter' \in [Request -> Waiter \cup {None}]
    BY <2>1, <2>2
  <2> QED BY <1>2, <2>1, <2>3 DEF Asks
<1> QED BY <1>1, <1>2

-----------------------------------------------------------------------------
(* What keeps the parts of the invariant.                                  *)

\* A tool that asks goes on asking as long as nobody touches it.
LEMMA ToolsKept ==
  ASSUME ToolsGood,
         \A r \in Request : Asks(r)' =>
           /\ Asks(r) /\ waiter'[r] = waiter[r]
           /\ tool'[waiter[r].call] = tool[waiter[r].call]
  PROVE  ToolsGood'
<1> SUFFICES ASSUME NEW r \in Request, Asks(r)'
             PROVE  /\ tool'[waiter'[r].call] # None
                    /\ tool'[waiter'[r].call].state = "parked"
                    /\ \A q \in Request : Asks(q)' /\ waiter'[q].call = waiter'[r].call => q = r
  BY DEF ToolsGood
<1>1. Asks(r) /\ waiter'[r] = waiter[r] /\ tool'[waiter[r].call] = tool[waiter[r].call]
  OBVIOUS
<1>2. tool[waiter[r].call] # None /\ tool[waiter[r].call].state = "parked"
  BY <1>1 DEF ToolsGood
<1>3. ASSUME NEW q \in Request, Asks(q)', waiter'[q].call = waiter'[r].call
      PROVE  q = r
  BY <1>1, <1>3 DEF ToolsGood
<1> QED BY <1>1, <1>2, <1>3

\* A prompt, a marker, a signal or a waiter less, and more the human said.
LEMMA FewerKeep ==
  ASSUME ConsentInv, TypesGood', ToolsGood',
         Grants(prompts)' \subseteq Grants(prompts),
         Grants(Asked)' \subseteq Grants(Asked),
         Approvals(Asked)' \subseteq Approvals(Asked),
         mail' \subseteq mail,
         \A k \in Capsule : Pending(k)' => Pending(k) /\ marker'[k].req = marker[k].req,
         \A p \in Grants(prompts)' : p.live /\ Paired(p) => Paired(p)',
         \A r \in Request : waiter'[r] \in {waiter[r], None},
         broker' # None => \A r \in Range(broker'.signals) :
           broker # None /\ r \in Range(broker.signals) /\ waiter'[r] = waiter[r],
         said.capsules \subseteq said'.capsules,
         granted' \cup decision' \subseteq said'.capsules
  PROVE  ConsentInv'
<1> USE DEF ConsentInv
<1>1. SignalsGood'
  <2> SUFFICES ASSUME broker' # None, NEW r \in Range(broker'.signals)
               PROVE  /\ waiter'[r] # None
                      /\ \A p \in Grants(Asked)' \cup Approvals(Asked)' : p.req # r
                      /\ \A k \in Capsule : Pending(k)' => marker'[k].req # r
    BY DEF SignalsGood, Settled
  <2> QED BY DEF SignalsGood, Settled
<1>2. PromptsGood'
  <2>1. \A p \in Grants(Asked)' \cup Approvals(Asked)' : p.req \in Request
    BY PromptKinds, AskedAre
  <2>2. \A r \in Request : ~Settled(r)' => ~Settled(r) /\ waiter'[r] = waiter[r]
    BY DEF Settled
  <2>3. ASSUME NEW p \in Grants(Asked)', ~Settled(p.req)'
        PROVE  waiter'[p.req].grant /\ waiter'[p.req].capsule = p.capsule
    <3>1. PICK r \in Request : r = p.req
      BY <2>1
    <3>2. ~Settled(r) /\ waiter'[r] = waiter[r]
      BY <2>2, <2>3, <3>1 DEF Settled
    <3> QED BY <3>1, <3>2 DEF PromptsGood
  <2>4. ASSUME NEW p \in Approvals(Asked)', ~Settled(p.req)'
        PROVE  ~waiter'[p.req].grant
    <3>1. PICK r \in Request : r = p.req
      BY <2>1
    <3>2. ~Settled(r) /\ waiter'[r] = waiter[r]
      BY <2>2, <2>4, <3>1 DEF Settled
    <3> QED BY <3>1, <3>2 DEF PromptsGood
  <2> QED BY <2>3, <2>4 DEF PromptsGood, Settled
<1>3. MarkersGood'
  <2>1. \A k \in Capsule : Pending(k)' =>
          \A p \in Grants(Asked)' : p.req = marker'[k].req => p.capsule = k /\ p.live
    BY DEF MarkersGood
  <2>2. \A p \in Grants(prompts)' : p.live => Paired(p)'
    BY DEF MarkersGood
  <2>3. \A p \in Grants(prompts)', q \in Grants(Asked)' : p.req = q.req => p = q
    BY DEF MarkersGood
  <2>4. \A m \in mail' : m.prompt \notin Grants(prompts)'
    BY DEF MarkersGood
  <2> QED BY <2>1, <2>2, <2>3, <2>4 DEF MarkersGood
<1>4. SaidGood'
  BY DEF SaidGood
<1> QED BY <1>1, <1>2, <1>3, <1>4

\* A new request: nobody was asked about it yet.
LEMMA RaiseKeeps ==
  ASSUME ConsentInv, NEW n \in Call, NEW grant \in BOOLEAN,
         tool[n] # None, Raise(n, grant),
         UNCHANGED <<kv, granted, prompts, mail, said>>,
         tool' \in [Call -> Tool \cup {None}], ToolsGood'
  PROVE  ConsentInv'
<1> USE DEF ConsentInv
<1>1. PICK r \in Request :
        /\ FreeRequest(r)
        /\ waiter' = [waiter EXCEPT ![r] =
                      [capsule |-> tool[n].capsule, call |-> n, grant |-> grant]]
        /\ broker' = IF broker # None /\ broker.leg = "dispatch"
                       THEN [broker EXCEPT !.signals = Append(@, r)] ELSE broker
  BY RaiseRaises
<1>2. /\ marker' = marker /\ decision' = decision /\ granted' = granted
      /\ prompts' = prompts /\ mail' = mail /\ said' = said
  BY DEF kv
<1>3. PICK w \in Waiter :
        w = [capsule |-> tool[n].capsule, call |-> n, grant |-> grant] /\ w # None
  <2>1. tool[n].capsule \in Capsule
    BY DEF TypesGood, Tool
  <2>2. [capsule |-> tool[n].capsule, call |-> n, grant |-> grant] \in Waiter
    BY <2>1 DEF Waiter
  <2> QED BY <2>1, <2>2, NoneIsApart
<1>4. /\ waiter' \in [Request -> Waiter \cup {None}]
      /\ \A q \in Request : waiter'[q] = IF q = r THEN w ELSE waiter[q]
  BY <1>1, <1>3 DEF TypesGood
<1>5. /\ broker' \in Broker \cup {None}
      /\ broker' # None =>
           broker # None /\ Range(broker'.signals) \subseteq Range(broker.signals) \cup {r}
  <2>1. CASE broker # None /\ broker.leg = "dispatch"
    <3>1. broker \in Broker
      BY <2>1 DEF TypesGood
    <3>2. PICK s \in Seq(Request) : s = broker.signals
      BY <3>1 DEF Broker
    <3>3. broker' = [broker EXCEPT !.signals = Append(s, r)]
      BY <1>1, <2>1, <3>2
    <3>4. Append(s, r) \in Seq(Request) /\ Range(Append(s, r)) \subseteq Range(s) \cup {r}
      <4>1. Append(s, r) \in Seq(Request) /\ Len(Append(s, r)) = Len(s) + 1
            /\ \A i \in 1 .. Len(s) : Append(s, r)[i] = s[i]
            /\ Append(s, r)[Len(s) + 1] = r
        OBVIOUS
      <4>2. ASSUME NEW i \in DOMAIN Append(s, r)
            PROVE  Append(s, r)[i] \in Range(s) \cup {r}
        <5>1. i \in 1 .. Len(s) + 1
          BY <4>1
        <5>2. CASE i \in 1 .. Len(s)
          BY <4>1, <5>2 DEF Range
        <5>3. CASE i = Len(s) + 1
          BY <4>1, <5>3
        <5> QED BY <5>1, <5>2, <5>3
      <4> QED BY <4>1, <4>2 DEF Range
    <3>5. broker' \in Broker /\ broker'.signals = Append(s, r)
      BY <3>1, <3>3, <3>4 DEF Broker
    <3> QED BY <2>1, <3>2, <3>4, <3>5
  <2>2. CASE ~(broker # None /\ broker.leg = "dispatch")
    BY <1>1, <2>2 DEF TypesGood
  <2> QED BY <2>1, <2>2
<1>6. TypesGood'
  BY <1>2, <1>4, <1>5 DEF TypesGood
<1>7. /\ Grants(Asked)' = Grants(Asked) /\ Approvals(Asked)' = Approvals(Asked)
      /\ Grants(prompts)' = Grants(prompts)
      /\ \A k \in Capsule : Pending(k)' = Pending(k)
  BY <1>2 DEF Grants, Approvals, Asked, Pending
<1>8. SignalsGood'
  <2> SUFFICES ASSUME broker' # None, NEW q \in Range(broker'.signals)
               PROVE  /\ waiter'[q] # None
                      /\ \A p \in Grants(Asked) \cup Approvals(Asked) : p.req # q
                      /\ \A k \in Capsule : Pending(k) => marker[k].req # q
    BY <1>2, <1>7 DEF SignalsGood, Settled
  <2>1. CASE q = r
    BY <1>1, <1>3, <1>4, <2>1, FreeIsFree
  <2>2. CASE q # r
    <3>1. broker # None /\ q \in Range(broker.signals) /\ q \in Request
      <4>1. broker # None /\ q \in Range(broker.signals)
        BY <1>5, <2>2
      <4>2. broker.signals \in Seq(Request)
        BY <4>1 DEF TypesGood, Broker
      <4> QED BY <4>1, <4>2 DEF Range
    <3> QED BY <1>4, <2>2, <3>1 DEF SignalsGood, Settled
  <2> QED BY <2>1, <2>2
<1>9. PromptsGood'
  <2>1. \A p \in Grants(Asked) \cup Approvals(Asked) :
          p.req \in Request /\ waiter'[p.req] = waiter[p.req]
    BY <1>1, <1>4, FreeIsFree, PromptKinds, AskedAre
  <2> QED BY <1>7, <2>1 DEF PromptsGood, Settled
<1>10. MarkersGood'
  <2>1. \A p : Paired(p)' = Paired(p)
    BY <1>2 DEF Paired, Pending
  <2> QED BY <1>2, <1>7, <2>1 DEF MarkersGood
<1>11. SaidGood'
  BY <1>2 DEF SaidGood
<1> QED BY <1>6, <1>8, <1>9, <1>10, <1>11

-----------------------------------------------------------------------------
(* The host, the tools and the human.                                      *)

\* What stays as it is when no prompt, answer or marker changes.
LEMMA StillAsked ==
  ASSUME prompts' = prompts, mail' = mail, marker' = marker
  PROVE  /\ Grants(prompts)' = Grants(prompts)
         /\ Grants(Asked)' = Grants(Asked) /\ Approvals(Asked)' = Approvals(Asked)
         /\ \A k \in Capsule : Pending(k)' = Pending(k)
         /\ \A p : Paired(p)' = Paired(p)
BY DEF Grants, Approvals, Asked, Pending, Paired

\* Only the tools, the broker, its routes and the waiters have changed.
LEMMA QuietKeeps ==
  ASSUME ConsentInv, ToolsGood',
         UNCHANGED <<decision, marker, granted, prompts, mail, said>>,
         tool' \in [Call -> Tool \cup {None}],
         waiter' \in [Request -> Waiter \cup {None}],
         \A r \in Request : waiter'[r] \in {waiter[r], None},
         broker' \in Broker \cup {None},
         broker' # None => \A r \in Range(broker'.signals) :
           broker # None /\ r \in Range(broker.signals) /\ waiter'[r] = waiter[r]
  PROVE  ConsentInv'
<1>1. TypesGood'
  BY DEF ConsentInv, TypesGood
<1> QED BY <1>1, StillAsked, FewerKeep DEF ConsentInv, SaidGood

\* The kernel runs a tool, or drops the call and says so.
LEMMA DeliveredKeeps ==
  ASSUME ConsentInv, NEW n \in Call, Delivered(n)
  PROVE  ConsentInv'
<1>1. /\ tool \in [Call -> Tool \cup {None}] /\ tool[n] # None /\ tool[n].state = "sent"
      /\ UNCHANGED <<kv, granted, prompts, mail, said>>
  BY DEF Delivered, ConsentInv, TypesGood
<1>2. \A r \in Request : Asks(r) => waiter[r].call # n
  BY <1>1 DEF ConsentInv, ToolsGood
<1>3. CASE tool' = [tool EXCEPT ![n].state = "running"] /\ UNCHANGED <<waiter, broker>>
  <2>1. tool' \in [Call -> Tool \cup {None}] /\ \A m \in Call \ {n} : tool'[m] = tool[m]
    BY <1>1, <1>3 DEF Tool, AtWork
  <2>2. \A r \in Request : Asks(r)' = Asks(r) /\ (Asks(r) => waiter[r].call \in Call)
    BY <1>3 DEF Asks, Settled, ConsentInv, TypesGood, Waiter
  <2>3. ToolsGood'
    BY <1>2, <1>3, <2>1, <2>2, ToolsKept DEF ConsentInv
  <2>4. \A r \in Request : waiter'[r] \in {waiter[r], None}
    BY <1>3
  <2> QED BY <1>1, <1>3, <2>1, <2>3, <2>4, QuietKeeps DEF kv, ConsentInv, TypesGood
<1>4. CASE Raise(n, TRUE) /\ tool' = [tool EXCEPT ![n] = None]
  <2>1. tool' \in [Call -> Tool \cup {None}] /\ \A m \in Call \ {n} : tool'[m] = tool[m]
    BY <1>1, <1>4
  <2>2. PICK r \in Request :
          waiter' = [waiter EXCEPT ![r] =
                     [capsule |-> tool[n].capsule, call |-> n, grant |-> TRUE]]
    BY <1>4, RaiseRaises
  <2>3. /\ waiter'[r].grant
        /\ \A q \in Request \ {r} : waiter'[q] = waiter[q]
    BY <2>2 DEF ConsentInv, TypesGood
  <2>4. \A q \in Request : Asks(q)' =>
          Asks(q) /\ waiter'[q] = waiter[q] /\ waiter[q].call \in Call
    BY <2>3 DEF Asks, Settled, ConsentInv, TypesGood, Waiter
  <2>5. ToolsGood'
    BY <1>2, <2>1, <2>4, ToolsKept DEF ConsentInv
  <2> QED BY <1>1, <1>4, <2>1, <2>5, RaiseKeeps
<1> QED BY <1>3, <1>4 DEF Delivered

\* A tool asks for approval, and is parked.
LEMMA ToolAsksKeeps ==
  ASSUME ConsentInv, NEW n \in Call, ToolAsks(n)
  PROVE  ConsentInv'
<1>1. /\ tool \in [Call -> Tool \cup {None}] /\ tool[n] # None /\ tool[n].state \in AtWork
      /\ UNCHANGED <<kv, granted, prompts, mail, said>>
      /\ Raise(n, FALSE) /\ tool' = [tool EXCEPT ![n].state = "parked"]
  BY DEF ToolAsks, ConsentInv, TypesGood
<1>2. \A r \in Request : Asks(r) => waiter[r].call # n
  BY <1>1 DEF ConsentInv, ToolsGood, AtWork
<1>3. PICK t \in Tool : t = [tool[n] EXCEPT !.state = "parked"]
                        /\ t.state = "parked" /\ t # None
  <2>1. tool[n] \in Tool
    BY <1>1
  <2>2. PICK k \in Capsule : k = tool[n].capsule
    BY <2>1 DEF Tool
  <2>3. [tool[n] EXCEPT !.state = "parked"] = [capsule |-> k, state |-> "parked"]
    BY <2>1, <2>2 DEF Tool
  <2>4. [capsule |-> k, state |-> "parked"] \in Tool
        /\ [capsule |-> k, state |-> "parked"] # None
    BY NoneIsApart DEF Tool
  <2> QED BY <2>3, <2>4
<1>4. /\ tool' \in [Call -> Tool \cup {None}] /\ tool'[n] = t
      /\ \A m \in Call \ {n} : tool'[m] = tool[m]
  BY <1>1, <1>3
<1>5. PICK r \in Request :
        /\ FreeRequest(r)
        /\ waiter' = [waiter EXCEPT ![r] =
                      [capsule |-> tool[n].capsule, call |-> n, grant |-> FALSE]]
  BY <1>1, RaiseRaises
<1>6. waiter'[r].call = n /\ \A q \in Request \ {r} : waiter'[q] = waiter[q]
  BY <1>5 DEF ConsentInv, TypesGood
<1>7. \A q \in Request \ {r} : Asks(q)' =>
        Asks(q) /\ waiter[q].call # n /\ waiter[q].call \in Call
  BY <1>2, <1>6 DEF Asks, Settled, ConsentInv, TypesGood, Waiter
<1>8. ToolsGood'
  <2> SUFFICES ASSUME NEW q \in Request, Asks(q)'
               PROVE  /\ tool'[waiter'[q].call] # None
                      /\ tool'[waiter'[q].call].state = "parked"
                      /\ \A p \in Request : Asks(p)' /\ waiter'[p].call = waiter'[q].call
                           => p = q
    BY DEF ToolsGood
  <2>1. CASE q = r
    BY <1>3, <1>4, <1>6, <1>7, <2>1
  <2>2. CASE q # r
    <3>1. Asks(q) /\ waiter'[q] = waiter[q] /\ waiter[q].call \in Call \ {n}
      BY <1>6, <1>7, <2>2
    <3>2. tool[waiter[q].call] # None /\ tool[waiter[q].call].state = "parked"
          /\ \A p \in Request : Asks(p) /\ waiter[p].call = waiter[q].call => p = q
      BY <3>1 DEF ConsentInv, ToolsGood
    <3> QED BY <1>4, <1>6, <1>7, <2>2, <3>1, <3>2
  <2> QED BY <2>1, <2>2
<1> QED BY <1>1, <1>4, <1>8, RaiseKeeps

\* A tool comes to its end.
LEMMA ToolEndsKeeps ==
  ASSUME ConsentInv, NEW n \in Call, ToolEnds(n)
  PROVE  ConsentInv'
<1>1. /\ tool \in [Call -> Tool \cup {None}] /\ tool[n] # None /\ tool[n].state \in AtWork
      /\ UNCHANGED <<kv, waiter, granted, prompts, mail, said>>
      /\ tool' = [tool EXCEPT ![n] = None]
      /\ broker' = IF InBroker(n) THEN [broker EXCEPT !.result = TRUE] ELSE broker
  BY DEF ToolEnds, ConsentInv, TypesGood
<1>2. \A r \in Request : Asks(r) => waiter[r].call # n
  BY <1>1 DEF ConsentInv, ToolsGood, AtWork
<1>3. tool' \in [Call -> Tool \cup {None}] /\ \A m \in Call \ {n} : tool'[m] = tool[m]
  BY <1>1
<1>4. \A r \in Request : Asks(r)' = Asks(r) /\ waiter'[r] = waiter[r]
                         /\ (Asks(r) => waiter[r].call \in Call)
  BY <1>1 DEF Asks, Settled, ConsentInv, TypesGood, Waiter
<1>5. ToolsGood'
  BY <1>2, <1>3, <1>4, ToolsKept DEF ConsentInv
<1>6. /\ broker' \in Broker \cup {None}
      /\ broker' # None => broker # None /\ broker'.signals = broker.signals
  <2>1. CASE InBroker(n)
    <3>1. broker \in Broker /\ broker' = [broker EXCEPT !.result = TRUE] /\ broker # None
      BY <1>1, <2>1 DEF InBroker, ConsentInv, TypesGood
    <3>2. broker' \in Broker /\ broker'.signals = broker.signals
      BY <3>1 DEF Broker
    <3> QED BY <3>1, <3>2
  <2>2. CASE ~InBroker(n)
    BY <1>1, <2>2 DEF ConsentInv, TypesGood
  <2> QED BY <2>1, <2>2
<1>7. broker' # None => \A r \in Range(broker'.signals) :
        broker # None /\ r \in Range(broker.signals) /\ waiter'[r] = waiter[r]
  BY <1>1, <1>6
<1> QED BY <1>1, <1>3, <1>4, <1>5, <1>6, <1>7, QuietKeeps DEF kv, ConsentInv, TypesGood

\* A tool whose request is answered, or given up, asks no more; the others do.
LEMMA AnsweredKeepsTools ==
  ASSUME ConsentInv, NEW r \in Request,
         \A q \in Request : waiter'[q] = IF q = r THEN None ELSE waiter[q],
         \/ tool' = tool
         \/ Asks(r) /\ \E s : tool' = [tool EXCEPT ![waiter[r].call].state = s]
  PROVE  ToolsGood'
<1>1. \A q \in Request : Asks(q)' => Asks(q) /\ q # r /\ waiter'[q] = waiter[q]
  BY DEF Asks, Settled
<1>2. ASSUME NEW q \in Request, Asks(q)'
      PROVE  tool'[waiter[q].call] = tool[waiter[q].call]
  <2>1. CASE tool' = tool
    BY <2>1
  <2>2. CASE Asks(r) /\ \E s : tool' = [tool EXCEPT ![waiter[r].call].state = s]
    <3>1. PICK s : tool' = [tool EXCEPT ![waiter[r].call].state = s]
      BY <2>2
    <3>2. waiter[q].call # waiter[r].call
      BY <1>1, <1>2, <2>2 DEF ConsentInv, ToolsGood
    <3>3. tool \in [Call -> Tool \cup {None}] /\ waiter[q].call \in Call
      BY <1>1, <1>2 DEF Asks, Settled, ConsentInv, TypesGood, Waiter
    <3> QED BY <3>1, <3>2, <3>3
  <2> QED BY <2>1, <2>2
<1> QED BY <1>1, <1>2, ToolsKept DEF ConsentInv

\* A tool goes on with what it was told.
LEMMA ToldTools ==
  ASSUME ConsentInv, NEW r \in Request, NEW s \in AtWork, Asks(r),
         tool' = [tool EXCEPT ![waiter[r].call].state = s]
  PROVE  tool' \in [Call -> Tool \cup {None}]
<1>1. PICK n \in Call : n = waiter[r].call
  BY DEF Asks, Settled, ConsentInv, TypesGood, Waiter
<1>2. tool \in [Call -> Tool \cup {None}] /\ tool[n] # None
  BY <1>1 DEF ConsentInv, TypesGood, ToolsGood
<1>3. [tool[n] EXCEPT !.state = s] \in Tool
  BY <1>2 DEF Tool
<1> QED BY <1>1, <1>2, <1>3

\* The host gives up waiting.
LEMMA WaiterExpiresKeeps ==
  ASSUME ConsentInv, NEW r \in Request, WaiterExpires(r)
  PROVE  ConsentInv'
<1>1. /\ ~Settled(r) /\ (broker # None => r \notin Range(broker.signals))
      /\ waiter' = [waiter EXCEPT ![r] = None]
      /\ tool' = IF waiter[r].grant THEN tool
                 ELSE [tool EXCEPT ![waiter[r].call].state = "running"]
      /\ UNCHANGED <<kv, broker, granted, prompts, mail, said>>
  BY DEF WaiterExpires
<1>2. /\ waiter' \in [Request -> Waiter \cup {None}]
      /\ \A q \in Request : waiter'[q] = IF q = r THEN None ELSE waiter[q]
  BY <1>1 DEF ConsentInv, TypesGood
<1>3. \/ tool' = tool
      \/ Asks(r) /\ tool' = [tool EXCEPT ![waiter[r].call].state = "running"]
  BY <1>1 DEF Asks
<1>4. ToolsGood'
  BY <1>2, <1>3, AnsweredKeepsTools
<1>5. tool' \in [Call -> Tool \cup {None}]
  <2>1. CASE tool' = tool
    BY <2>1 DEF ConsentInv, TypesGood
  <2>2. CASE tool' # tool
    BY <1>3, <2>2, ToldTools DEF AtWork
  <2> QED BY <2>1, <2>2
<1>6. broker' = broker /\ broker' \in Broker \cup {None}
  BY <1>1 DEF ConsentInv, TypesGood
<1>7. broker' # None => \A q \in Range(broker'.signals) :
        broker # None /\ q \in Range(broker.signals) /\ waiter'[q] = waiter[q]
  <2>1. broker # None => Range(broker.signals) \subseteq Request
    BY DEF ConsentInv, TypesGood, Broker, Range
  <2> QED BY <1>1, <1>2, <1>6, <2>1
<1> QED BY <1>1, <1>2, <1>4, <1>5, <1>6, <1>7, QuietKeeps DEF kv

\* The human answers a prompt.
LEMMA AnswerKeeps ==
  ASSUME ConsentInv, NEW p \in prompts, NEW yes \in BOOLEAN, Answer(p, yes)
  PROVE  ConsentInv'
<1> USE DEF ConsentInv
<1>1. /\ mail = {} /\ prompts' = prompts \ {p}
      /\ mail' \in {mail, mail \cup {[prompt |-> p, yes |-> yes]}}
      /\ said' = IF yes /\ p.kind = "grant" /\ p.live
                   THEN [said EXCEPT !.capsules = @ \cup {p.capsule}] ELSE said
      /\ UNCHANGED <<kv, broker, host>>
  BY DEF Answer
<1>2. /\ decision' = decision /\ marker' = marker /\ broker' = broker
      /\ tool' = tool /\ waiter' = waiter /\ granted' = granted
  BY <1>1 DEF kv, host
<1>3. \A m \in mail' : m = [prompt |-> p, yes |-> yes] /\ m.prompt = p /\ m.yes = yes
  BY <1>1
<1>4. /\ said.capsules \subseteq said'.capsules
      /\ said' = [capsules |-> said'.capsules, evicted |-> said'.evicted]
      /\ yes /\ p.kind = "grant" /\ p.live => p.capsule \in said'.capsules
  <2>1. PICK c, e : said = [capsules |-> c, evicted |-> e]
    BY DEF TypesGood
  <2> QED BY <1>1, <2>1
<1>5. TypesGood'
  <2>1. [prompt |-> p, yes |-> yes] \in Mail
    BY DEF TypesGood, Mail
  <2>2. mail' \subseteq Mail /\ prompts' \subseteq Prompt
    BY <1>1, <2>1 DEF TypesGood
  <2> QED BY <1>2, <1>4, <2>2 DEF TypesGood
<1>6. ToolsGood'
  BY <1>2 DEF ToolsGood, Asks, Settled
<1>7. Asked' \subseteq Asked /\ prompts' \subseteq prompts
  BY <1>1, <1>3 DEF Asked
<1>8. /\ Grants(Asked)' \subseteq Grants(Asked) /\ Approvals(Asked)' \subseteq Approvals(Asked)
      /\ Grants(prompts)' \subseteq Grants(prompts)
  BY <1>7 DEF Grants, Approvals
<1>9. \A k \in Capsule : Pending(k)' = Pending(k)
  BY <1>2 DEF Pending
<1>10. SignalsGood'
  BY <1>2, <1>8, <1>9 DEF SignalsGood, Settled
<1>11. PromptsGood'
  BY <1>2, <1>8 DEF PromptsGood, Settled
<1>12. MarkersGood'
  <2>1. \A k \in Capsule : Pending(k)' =>
          \A q \in Grants(Asked)' : q.req = marker'[k].req => q.capsule = k /\ q.live
    BY <1>2, <1>8, <1>9 DEF MarkersGood
  <2>2. \A q \in Grants(prompts)' : q.live => Paired(q)'
    <3>1. \A q : Paired(q)' = Paired(q)
      BY <1>2 DEF Paired, Pending
    <3> QED BY <1>8, <3>1 DEF MarkersGood
  <2>3. \A q \in Grants(prompts)', o \in Grants(Asked)' : q.req = o.req => q = o
    BY <1>8 DEF MarkersGood
  <2>4. \A m \in mail' : m.prompt \notin Grants(prompts)'
    BY <1>1, <1>3 DEF Grants
  <2> QED BY <2>1, <2>2, <2>3, <2>4 DEF MarkersGood
<1>13. SaidGood'
  BY <1>2, <1>3, <1>4 DEF SaidGood
<1> QED BY <1>5, <1>6, <1>10, <1>11, <1>12, <1>13

-----------------------------------------------------------------------------
(* Dispatch.                                                               *)

\* A call is refused at the ingress, or sent out.
LEMMA ToolCallKeeps ==
  ASSUME ConsentInv, NEW k \in Capsule, ToolCall(k)
  PROVE  ConsentInv'
<1>1. broker = None /\ UNCHANGED <<trusted, decision, marker, routes, waiter, granted, mail, said>>
  BY DEF ToolCall
<1>2. CASE prompts' = prompts \cup {[kind |-> "ingress"]} /\ UNCHANGED <<broker, tool>>
  <2>1. /\ Grants(prompts)' = Grants(prompts) /\ Grants(Asked)' = Grants(Asked)
        /\ Approvals(Asked)' = Approvals(Asked)
    BY <1>1, <1>2 DEF Grants, Approvals, Asked
  <2>2. [kind |-> "ingress"] \in Prompt
    BY DEF Prompt
  <2>3. TypesGood'
    BY <1>1, <1>2, <2>2 DEF ConsentInv, TypesGood
  <2>4. ToolsGood'
    BY <1>1, <1>2 DEF ConsentInv, ToolsGood, Asks, Settled
  <2>5. /\ \A j \in Capsule : Pending(j)' = Pending(j)
        /\ \A p : Paired(p)' = Paired(p)
    BY <1>1 DEF Paired, Pending
  <2> QED BY <1>1, <1>2, <2>1, <2>3, <2>4, <2>5, FewerKeep DEF ConsentInv, SaidGood
<1>3. CASE prompts' = prompts /\ \E n \in Call :
             /\ FreeCall(n)
             /\ tool' = [tool EXCEPT ![n] = [capsule |-> k, state |-> "sent"]]
             /\ broker' = [call |-> n, leg |-> "dispatch", signals |-> <<>>, result |-> FALSE]
  <2>1. PICK n \in Call :
             /\ FreeCall(n)
             /\ tool' = [tool EXCEPT ![n] = [capsule |-> k, state |-> "sent"]]
             /\ broker' = [call |-> n, leg |-> "dispatch", signals |-> <<>>, result |-> FALSE]
    BY <1>3
  <2>2. tool' \in [Call -> Tool \cup {None}] /\ \A m \in Call \ {n} : tool'[m] = tool[m]
    <3>1. [capsule |-> k, state |-> "sent"] \in Tool
      BY DEF Tool
    <3> QED BY <2>1, <3>1 DEF ConsentInv, TypesGood
  <2>3. \A r \in Request : Asks(r)' =>
          Asks(r) /\ waiter'[r] = waiter[r] /\ waiter[r].call \in Call \ {n}
    BY <1>1, <2>1 DEF Asks, Settled, FreeCall, ConsentInv, TypesGood, Waiter
  <2>4. ToolsGood'
    BY <2>2, <2>3, ToolsKept DEF ConsentInv
  <2>5. broker' \in Broker /\ broker'.signals = <<>>
    <3>1. <<>> \in Seq(Request)
      OBVIOUS
    <3> QED BY <2>1, <3>1 DEF Broker
  <2>6. \A r \in Range(broker'.signals) : FALSE
    BY <2>5 DEF Range
  <2>7. waiter' \in [Request -> Waiter \cup {None}] /\ \A r \in Request : waiter'[r] = waiter[r]
    BY <1>1 DEF ConsentInv, TypesGood
  <2> QED BY <1>1, <1>3, <2>2, <2>4, <2>5, <2>6, <2>7, QuietKeeps
<1> QED BY <1>1, <1>2, <1>3 DEF ToolCall

\* The result comes, or nothing does.
LEMMA DispatchEndsKeeps ==
  ASSUME ConsentInv, DispatchEnds
  PROVE  ConsentInv'
<1>1. broker' = None /\ UNCHANGED <<kv, host, prompts, mail, said>>
  BY DEF DispatchEnds
<1>2. ToolsGood'
  BY <1>1 DEF ConsentInv, ToolsGood, Asks, Settled, host
<1> QED BY <1>1, <1>2, QuietKeeps DEF kv, host, ConsentInv, TypesGood

\* The route of a call grows too old.
LEMMA RouteExpiresKeeps ==
  ASSUME ConsentInv, RouteExpires
  PROVE  ConsentInv'
<1>1. UNCHANGED <<trusted, ingress, decision, marker, broker, host, prompts, mail, said>>
  BY DEF RouteExpires
<1>2. ToolsGood'
  BY <1>1 DEF ConsentInv, ToolsGood, Asks, Settled, host
<1>3. broker' # None => \A r \in Range(broker'.signals) :
        broker # None /\ r \in Range(broker.signals) /\ waiter'[r] = waiter[r]
  BY <1>1 DEF host
<1> QED BY <1>1, <1>2, <1>3, QuietKeeps DEF host, ConsentInv, TypesGood

\* The broker asks the human about a request that it was sent: nobody was asked
\* before.
LEMMA ApprovalRequiredKeeps ==
  ASSUME ConsentInv, NEW r \in Request, ApprovalRequired(r)
  PROVE  ConsentInv'
<1> USE DEF ConsentInv
<1>1. /\ Signal(r) /\ ~waiter[r].grant
      /\ prompts' = prompts \cup {[kind |-> "approval", req |-> r, call |-> broker.call]}
      /\ broker' = None
      /\ UNCHANGED <<trusted, ingress, decision, marker, host, mail>>
      /\ \E e : said' = [said EXCEPT !.evicted = e]
  BY DEF ApprovalRequired
<1>2. /\ decision' = decision /\ marker' = marker /\ mail' = mail
      /\ tool' = tool /\ waiter' = waiter /\ granted' = granted
  BY <1>1 DEF host
<1>3. broker # None /\ r \in Range(broker.signals)
  BY <1>1, SignalWasSent
<1>4. PICK p \in Prompt : /\ p = [kind |-> "approval", req |-> r, call |-> broker.call]
                          /\ p.kind = "approval" /\ p.req = r
  <2>1. broker.call \in Call
    BY <1>3 DEF TypesGood, Broker
  <2>2. [kind |-> "approval", req |-> r, call |-> broker.call] \in Prompt
    BY <2>1 DEF Prompt
  <2> QED BY <2>2
<1>5. said'.capsules = said.capsules
      /\ said' = [capsules |-> said'.capsules, evicted |-> said'.evicted]
  <2>1. PICK c, e : said = [capsules |-> c, evicted |-> e]
    BY DEF TypesGood
  <2> QED BY <1>1, <2>1
<1>6. TypesGood'
  BY <1>1, <1>2, <1>4, <1>5 DEF TypesGood
<1>7. ToolsGood'
  BY <1>2 DEF ToolsGood, Asks, Settled
<1>8. /\ Grants(prompts)' = Grants(prompts) /\ Grants(Asked)' = Grants(Asked)
      /\ Approvals(Asked)' = Approvals(Asked) \cup {p}
      /\ \A k \in Capsule : Pending(k)' = Pending(k)
      /\ \A q : Paired(q)' = Paired(q)
  BY <1>1, <1>2, <1>4 DEF Grants, Approvals, Asked, Pending, Paired
<1>9. SignalsGood'
  BY <1>1 DEF SignalsGood
<1>10. PromptsGood'
  BY <1>1, <1>2, <1>4, <1>8 DEF PromptsGood, Settled
<1>11. MarkersGood'
  BY <1>2, <1>8 DEF MarkersGood
<1>12. SaidGood'
  BY <1>2, <1>5 DEF SaidGood
<1> QED BY <1>6, <1>7, <1>9, <1>10, <1>11, <1>12

\* A refusal is answered at once, ignored, or asked about.
LEMMA GrantRequiredKeeps ==
  ASSUME ConsentInv, NEW r \in Request, GrantRequired(r)
  PROVE  ConsentInv'
<1> USE DEF ConsentInv
<1>1. PICK k : k = waiter[r].capsule
  OBVIOUS
<1>2. /\ Signal(r) /\ waiter[r].grant /\ broker' = None
      /\ UNCHANGED <<trusted, ingress, decision, routes, mail, said>>
  BY DEF GrantRequired
<1>3. broker # None /\ r \in Range(broker.signals)
  BY <1>2, SignalWasSent
<1>4. ~Settled(r) /\ k \in Capsule
  BY <1>1, <1>3 DEF SignalsGood, TypesGood, Waiter, Settled
<1>5. CASE k \in decision /\ Decide(r, TRUE) /\ UNCHANGED <<marker, prompts>>
  <2>1. /\ \A q \in Request : waiter'[q] = IF q = r THEN None ELSE waiter[q]
        /\ waiter' \in [Request -> Waiter \cup {None}]
        /\ granted' \in {granted, granted \cup {k}}
        /\ tool' = tool
    BY <1>1, <1>2, <1>4, <1>5, DecideDecides
  <2>2. ToolsGood'
    BY <2>1, AnsweredKeepsTools
  <2>3. TypesGood'
    BY <1>2, <1>4, <1>5, <2>1 DEF TypesGood
  <2>4. granted' \cup decision' \subseteq said'.capsules
    BY <1>2, <1>5, <2>1 DEF SaidGood
  <2> QED BY <1>2, <1>5, <2>1, <2>2, <2>3, <2>4, StillAsked, FewerKeep
<1>6. CASE UNCHANGED <<marker, prompts, host>>
  <2>1. ToolsGood'
    BY <1>6 DEF ToolsGood, Asks, Settled, host
  <2> QED BY <1>2, <1>6, <2>1, QuietKeeps DEF host, TypesGood
<1>7. CASE /\ ~Pending(k) /\ UNCHANGED host
           /\ marker' = [marker EXCEPT ![k] = [req |-> r, fresh |-> TRUE]]
           /\ prompts' = prompts \cup
                {[kind |-> "grant", req |-> r, capsule |-> k, live |-> TRUE]}
  <2>1. tool' = tool /\ waiter' = waiter /\ granted' = granted
        /\ decision' = decision /\ mail' = mail /\ said' = said
    BY <1>2, <1>7 DEF host
  <2>2. PICK p \in Prompt :
          /\ p = [kind |-> "grant", req |-> r, capsule |-> k, live |-> TRUE]
          /\ p.kind = "grant" /\ p.req = r /\ p.capsule = k /\ p.live
    <3>1. [kind |-> "grant", req |-> r, capsule |-> k, live |-> TRUE] \in Prompt
      BY <1>4 DEF Prompt
    <3> QED BY <3>1
  <2>3. PICK mk \in Marker : /\ mk = [req |-> r, fresh |-> TRUE]
                             /\ mk.req = r /\ mk.fresh /\ mk # None
    <3>1. [req |-> r, fresh |-> TRUE] \in Marker /\ [req |-> r, fresh |-> TRUE] # None
      BY NoneIsApart DEF Marker
    <3> QED BY <3>1
  <2>4. /\ marker' \in [Capsule -> Marker \cup {None}]
        /\ \A j \in Capsule : marker'[j] = IF j = k THEN mk ELSE marker[j]
    BY <1>7, <2>3 DEF TypesGood
  <2>5. TypesGood'
    BY <1>2, <1>7, <2>1, <2>2, <2>4 DEF TypesGood
  <2>6. ToolsGood'
    BY <2>1 DEF ToolsGood, Asks, Settled
  <2>7. /\ Grants(prompts)' = Grants(prompts) \cup {p}
        /\ Grants(Asked)' = Grants(Asked) \cup {p}
        /\ Approvals(Asked)' = Approvals(Asked)
    BY <1>7, <2>1, <2>2 DEF Grants, Approvals, Asked
  <2>8. /\ Pending(k)'
        /\ \A j \in Capsule \ {k} : Pending(j)' = Pending(j) /\ marker'[j] = marker[j]
    BY <1>4, <2>3, <2>4 DEF Pending
  <2>9. /\ \A q \in Grants(Asked) \cup Approvals(Asked) : q.req # r
        /\ \A j \in Capsule : Pending(j) => marker[j].req # r
    BY <1>3 DEF SignalsGood
  <2>10. \A q \in Grants(Asked) : q.req \in Request /\ q.capsule \in Capsule
    BY PromptKinds, AskedAre
  <2>11. Grants(prompts) \subseteq Grants(Asked)
    BY DEF Grants, Asked
  <2>12. SignalsGood'
    BY <1>2 DEF SignalsGood
  <2>13. PromptsGood'
    BY <1>1, <1>2, <2>1, <2>2, <2>7 DEF PromptsGood, Settled
  <2>14. MarkersGood'
    <3>1. ASSUME NEW j \in Capsule, Pending(j)', NEW q \in Grants(Asked)',
                 q.req = marker'[j].req
          PROVE  q.capsule = j /\ q.live
      <4>1. CASE j = k
        BY <2>2, <2>3, <2>4, <2>7, <2>9, <3>1, <4>1
      <4>2. CASE j # k
        <5>1. Pending(j) /\ q.req = marker[j].req
          BY <2>8, <3>1, <4>2
        <5>2. q # p
          BY <2>2, <2>9, <5>1
        <5> QED BY <2>7, <3>1, <5>1, <5>2 DEF MarkersGood
      <4> QED BY <4>1, <4>2
    <3>2. ASSUME NEW q \in Grants(prompts)', q.live
          PROVE  Paired(q)'
      <4>1. CASE q = p
        BY <1>4, <2>2, <2>3, <2>4, <2>8, <4>1 DEF Paired
      <4>2. CASE q # p
        <5>1. q \in Grants(prompts) /\ Paired(q) /\ q.capsule \in Capsule
          BY <2>7, <2>10, <2>11, <3>2, <4>2 DEF MarkersGood
        <5>2. q.capsule # k
          BY <1>7, <5>1 DEF Paired
        <5> QED BY <2>8, <5>1, <5>2 DEF Paired, Pending
      <4> QED BY <4>1, <4>2
    <3>3. ASSUME NEW q \in Grants(prompts)', NEW o \in Grants(Asked)', q.req = o.req
          PROVE  q = o
      <4>1. CASE q = p
        BY <2>2, <2>7, <2>9, <3>3, <4>1
      <4>2. CASE q # p
        BY <2>2, <2>7, <2>9, <2>11, <3>3, <4>2 DEF MarkersGood
      <4> QED BY <4>1, <4>2
    <3>4. ASSUME NEW m \in mail', m.prompt \in Grants(prompts)'
          PROVE  FALSE
      <4>1. m.prompt = p
        BY <2>1, <2>7, <3>4 DEF MarkersGood
      <4>2. m.prompt \in Grants(Asked)
        BY <2>1, <2>2, <4>1, AskedAre DEF Grants
      <4> QED BY <2>2, <2>9, <4>1, <4>2
    <3> QED BY <3>1, <3>2, <3>3, <3>4 DEF MarkersGood
  <2>15. SaidGood'
    BY <2>1 DEF SaidGood
  <2> QED BY <2>5, <2>6, <2>12, <2>13, <2>14, <2>15
<1> QED BY <1>1, <1>5, <1>6, <1>7 DEF GrantRequired

-----------------------------------------------------------------------------
(* Answers.                                                                *)

\* The tool that waits for an answer is told, and no other hears of it.
LEMMA DecideKeepsTools ==
  ASSUME ConsentInv, NEW r \in Request, NEW yes \in BOOLEAN, Decide(r, yes)
  PROVE  ToolsGood' /\ tool' \in [Call -> Tool \cup {None}]
<1>1. \A q \in Request : waiter'[q] = IF q = r THEN None ELSE waiter[q]
  BY DecideDecides DEF ConsentInv
<1>2. CASE Asks(r)
  <2>1. PICK s \in AtWork : tool' = [tool EXCEPT ![waiter[r].call].state = s]
    BY <1>2, DecideDecides DEF ConsentInv, AtWork
  <2> QED BY <1>1, <1>2, <2>1, AnsweredKeepsTools, ToldTools
<1>3. CASE ~Asks(r)
  <2>1. tool' = tool
    BY <1>3, DecideDecides DEF ConsentInv, Asks
  <2> QED BY <1>1, <2>1, AnsweredKeepsTools DEF ConsentInv, TypesGood
<1> QED BY <1>2, <1>3

\* An answer that is taken leaves the prompts as they are.
LEMMA MailTaken ==
  ASSUME NEW m \in mail, mail' = mail \ {m}, prompts' = prompts
  PROVE  /\ Grants(prompts)' = Grants(prompts)
         /\ Grants(Asked)' \subseteq Grants(Asked)
         /\ Approvals(Asked)' \subseteq Approvals(Asked)
BY DEF Grants, Approvals, Asked

\* The human trusts the source of the calls, or does not.
LEMMA IngressRespondKeeps ==
  ASSUME ConsentInv, NEW m \in mail, IngressRespond(m)
  PROVE  ConsentInv'
<1>1. /\ broker = None /\ mail' = mail \ {m} /\ prompts' = prompts
      /\ UNCHANGED <<decision, marker, routes, broker, tool, waiter, granted, said>>
  BY DEF IngressRespond, host
<1>2. TypesGood'
  BY <1>1 DEF ConsentInv, TypesGood
<1>3. ToolsGood'
  BY <1>1 DEF ConsentInv, ToolsGood, Asks, Settled
<1>4. \A k \in Capsule : Pending(k)' = Pending(k)
  BY <1>1 DEF Pending
<1>5. \A p : Paired(p)' = Paired(p)
  BY <1>1 DEF Paired, Pending
<1>6. granted' \cup decision' \subseteq said'.capsules
  BY <1>1 DEF ConsentInv, SaidGood
<1> QED BY <1>1, <1>2, <1>3, <1>4, <1>5, <1>6, MailTaken, FewerKeep

\* An answer that is not paired with a marker grants nothing; one that is, is
\* the human's word about the capsule that waits.
LEMMA GrantRespondKeeps ==
  ASSUME ConsentInv, NEW m \in mail, GrantRespond(m)
  PROVE  ConsentInv'
<1> USE DEF ConsentInv
<1>1. PICK p : p = m.prompt
  OBVIOUS
<1>2. /\ broker = None /\ mail' = mail \ {m} /\ p.kind = "grant"
      /\ prompts' = prompts /\ broker' = broker /\ said' = said
  BY <1>1 DEF GrantRespond
<1>3. p \in Grants(Asked) /\ p \notin Grants(prompts)
  BY <1>1, <1>2, AskedAre DEF Grants, MarkersGood
<1>4. p.req \in Request /\ p.capsule \in Capsule /\ m.yes \in BOOLEAN
  BY <1>3, PromptKinds, AskedAre DEF TypesGood, Mail
<1>5. /\ marker \in [Capsule -> Marker \cup {None}]
      /\ \A q \in Grants(prompts) : q.capsule \in Capsule
  <2>1. Grants(prompts) \subseteq Grants(Asked)
    BY DEF Grants, Asked
  <2> QED BY <2>1, PromptKinds, AskedAre DEF TypesGood
<1>6. CASE /\ Paired(p)
           /\ marker' = [marker EXCEPT ![p.capsule] = None]
           /\ decision' = IF trusted /\ m.yes THEN decision \cup {p.capsule} ELSE decision
           /\ Decide(p.req, trusted /\ m.yes)
  <2>1. PICK yes \in BOOLEAN : yes = (trusted /\ m.yes)
    OBVIOUS
  <2>2. /\ \A q \in Request : waiter'[q] = IF q = p.req THEN None ELSE waiter[q]
        /\ waiter' \in [Request -> Waiter \cup {None}]
        /\ granted' = granted \/
             (~Settled(p.req) /\ waiter[p.req].grant /\ yes
              /\ granted' = granted \cup {waiter[p.req].capsule})
    BY <1>4, <1>6, <2>1, DecideDecides
  <2>3. ToolsGood' /\ tool' \in [Call -> Tool \cup {None}]
    BY <1>4, <1>6, <2>1, DecideKeepsTools
  <2>4. p.live
    BY <1>3, <1>4, <1>6 DEF MarkersGood, Paired
  <2>5. ~Settled(p.req) => waiter[p.req].capsule = p.capsule
    BY <1>3 DEF PromptsGood
  <2>6. yes => p.capsule \in said.capsules
    BY <1>1, <1>2, <2>1, <2>4 DEF SaidGood
  <2>7. granted' \cup decision' \subseteq said'.capsules
    BY <1>2, <1>6, <2>1, <2>2, <2>5, <2>6 DEF SaidGood
  <2>8. /\ marker' \in [Capsule -> Marker \cup {None}] /\ marker'[p.capsule] = None
        /\ \A k \in Capsule \ {p.capsule} : marker'[k] = marker[k]
    BY <1>4, <1>5, <1>6
  <2>9. TypesGood'
    BY <1>2, <1>4, <1>6, <2>2, <2>3, <2>5, <2>8 DEF TypesGood
  <2>10. \A k \in Capsule : Pending(k)' => Pending(k) /\ marker'[k].req = marker[k].req
    BY <2>8 DEF Pending
  <2>11. \A q \in Grants(prompts) : q.live /\ Paired(q) => Paired(q)'
    <3> SUFFICES ASSUME NEW q \in Grants(prompts), Paired(q) PROVE Paired(q)'
      OBVIOUS
    <3>1. q.capsule # p.capsule
      BY <1>3, <1>6 DEF MarkersGood, Paired
    <3> QED BY <1>5, <2>8, <3>1 DEF Paired, Pending
  <2>12. \A r \in Request : waiter'[r] \in {waiter[r], None}
    BY <2>2
  <2> QED BY <1>2, <2>3, <2>7, <2>9, <2>10, <2>11, <2>12, MailTaken, FewerKeep
<1>7. CASE /\ ~Paired(p) /\ UNCHANGED <<decision, host>>
           /\ marker' = IF Pending(p.capsule) THEN marker
                        ELSE [marker EXCEPT ![p.capsule] = None]
  <2>1. tool' = tool /\ waiter' = waiter /\ granted' = granted /\ decision' = decision
    BY <1>7 DEF host
  <2>2. /\ marker' \in [Capsule -> Marker \cup {None}]
        /\ \A k \in Capsule : marker'[k] = marker[k] \/ (~Pending(k) /\ marker'[k] = None)
    BY <1>4, <1>5, <1>7
  <2>3. \A k \in Capsule : /\ Pending(k)' = Pending(k)
                           /\ Pending(k) => marker'[k] = marker[k]
    BY <2>2 DEF Pending
  <2>4. \A q \in Grants(prompts) : Paired(q) => Paired(q)'
    BY <1>5, <2>3 DEF Paired
  <2>5. TypesGood'
    BY <1>2, <2>1, <2>2 DEF TypesGood
  <2>6. ToolsGood'
    BY <2>1 DEF ToolsGood, Asks, Settled
  <2>7. granted' \cup decision' \subseteq said'.capsules
    BY <1>2, <2>1 DEF SaidGood
  <2> QED BY <1>2, <2>1, <2>3, <2>4, <2>5, <2>6, <2>7, MailTaken, FewerKeep
<1> QED BY <1>1, <1>6, <1>7 DEF GrantRespond

\* An answer about a tool's request is passed on, or the tool is denied; no
\* capsule is granted by it.
LEMMA ApprovalRespondKeeps ==
  ASSUME ConsentInv, NEW m \in mail, ApprovalRespond(m)
  PROVE  ConsentInv'
<1> USE DEF ConsentInv
<1>1. PICK p : p = m.prompt
  OBVIOUS
<1>2. /\ broker = None /\ mail' = mail \ {m} /\ p.kind = "approval"
      /\ UNCHANGED <<trusted, ingress, decision, marker, prompts>>
      /\ said' = [said EXCEPT !.evicted = @ \ {p.req}]
      /\ \/ broker' = [call |-> p.call, leg |-> "resume", signals |-> <<>>, result |-> FALSE]
         \/ broker' = broker
  BY <1>1 DEF ApprovalRespond
<1>3. PICK yes \in BOOLEAN : Decide(p.req, yes)
  <2>1. m.yes \in BOOLEAN /\ (trusted /\ m.yes) \in BOOLEAN
    BY DEF TypesGood, Mail
  <2> QED BY <1>1, <2>1 DEF ApprovalRespond
<1>4. p \in Approvals(Asked) /\ p.req \in Request /\ p.call \in Call
  <2>1. p \in Approvals(Asked)
    BY <1>1, <1>2, AskedAre DEF Approvals
  <2> QED BY <2>1, PromptKinds, AskedAre
<1>5. /\ \A q \in Request : waiter'[q] = IF q = p.req THEN None ELSE waiter[q]
      /\ waiter' \in [Request -> Waiter \cup {None}]
      /\ granted' = granted \/ (~Settled(p.req) /\ waiter[p.req].grant)
  BY <1>3, <1>4, DecideDecides
<1>6. granted' = granted
  BY <1>4, <1>5 DEF PromptsGood
<1>7. ToolsGood' /\ tool' \in [Call -> Tool \cup {None}]
  BY <1>3, <1>4, DecideKeepsTools
<1>8. /\ broker' \in Broker \cup {None}
      /\ broker' # None => \A r \in Range(broker'.signals) : FALSE
  <2>1. <<>> \in Seq(Request) /\ \A r \in Range(<<>>) : FALSE
    BY DEF Range
  <2>2. CASE broker' = broker
    BY <1>2, <2>2
  <2>3. CASE broker' = [call |-> p.call, leg |-> "resume", signals |-> <<>>, result |-> FALSE]
    <3>1. broker' \in Broker /\ broker'.signals = <<>>
      BY <1>4, <2>1, <2>3 DEF Broker
    <3> QED BY <2>1, <3>1
  <2> QED BY <1>2, <2>2, <2>3
<1>9. /\ said'.capsules = said.capsules
      /\ said' = [capsules |-> said'.capsules, evicted |-> said'.evicted]
  <2>1. PICK c, e : said = [capsules |-> c, evicted |-> e]
    BY DEF TypesGood
  <2> QED BY <1>2, <2>1
<1>10. TypesGood'
  BY <1>2, <1>5, <1>6, <1>7, <1>8, <1>9 DEF TypesGood
<1>11. \A k \in Capsule : Pending(k)' = Pending(k)
  BY <1>2 DEF Pending
<1>12. \A q : Paired(q)' = Paired(q)
  BY <1>2 DEF Paired, Pending
<1>13. granted' \cup decision' \subseteq said'.capsules
  BY <1>2, <1>6, <1>9 DEF SaidGood
<1>14. \A r \in Request : waiter'[r] \in {waiter[r], None}
  BY <1>5
<1> QED BY <1>2, <1>7, <1>8, <1>9, <1>10, <1>11, <1>12, <1>13, <1>14, MailTaken, FewerKeep

\* A marker grows too old, and so does the prompt it stands for: no other
\* prompt is about that request.
LEMMA MarkerExpiresKeeps ==
  ASSUME ConsentInv, NEW k \in Capsule, MarkerExpires(k)
  PROVE  ConsentInv'
<1> USE DEF ConsentInv
<1>1. PICK r \in Request : r = marker[k].req
  BY DEF MarkerExpires, Pending, TypesGood, Marker
<1> DEFINE Old(p) == IF p.kind = "grant" /\ p.req = r THEN [p EXCEPT !.live = FALSE] ELSE p
<1>2. /\ Pending(k)
      /\ marker' = [marker EXCEPT ![k].fresh = FALSE]
      /\ prompts' = {Old(p) : p \in prompts}
      /\ UNCHANGED <<trusted, ingress, decision, routes, broker, host, mail, said>>
  BY <1>1 DEF MarkerExpires
<1>3. tool' = tool /\ waiter' = waiter /\ granted' = granted
  BY <1>2 DEF host
<1>4. /\ marker' \in [Capsule -> Marker \cup {None}] /\ ~Pending(k)'
      /\ \A j \in Capsule \ {k} : marker'[j] = marker[j] /\ Pending(j)' = Pending(j)
  <2>1. marker \in [Capsule -> Marker \cup {None}] /\ marker[k] \in Marker
    BY <1>2 DEF TypesGood, Pending
  <2>2. [marker[k] EXCEPT !.fresh = FALSE] \in Marker
        /\ [marker[k] EXCEPT !.fresh = FALSE].fresh = FALSE
    BY <2>1 DEF Marker
  <2> QED BY <1>2, <2>1, <2>2 DEF Pending
<1>5. ASSUME NEW p \in Prompt
      PROVE  /\ Old(p) \in Prompt /\ Old(p).kind = p.kind
             /\ p.kind = "grant" => Old(p).req = p.req /\ Old(p).capsule = p.capsule
             /\ p.kind = "grant" /\ p.req = r => ~Old(p).live
             /\ ~(p.kind = "grant" /\ p.req = r) => Old(p) = p
  <2>1. CASE p.kind = "grant" /\ p.req = r
    <3>1. p \in [kind : {"grant"}, req : Request, capsule : Capsule, live : BOOLEAN]
      BY <2>1 DEF Prompt
    <3>2. Old(p) = [p EXCEPT !.live = FALSE]
      BY <2>1
    <3>3. /\ Old(p) \in [kind : {"grant"}, req : Request, capsule : Capsule, live : BOOLEAN]
          /\ Old(p).kind = "grant" /\ Old(p).req = p.req /\ Old(p).capsule = p.capsule
          /\ Old(p).live = FALSE
      BY <3>1, <3>2
    <3> QED BY <2>1, <3>3 DEF Prompt
  <2>2. CASE ~(p.kind = "grant" /\ p.req = r)
    BY <2>2
  <2> QED BY <2>1, <2>2
<1> HIDE DEF Old
<1>6. prompts \subseteq Prompt /\ Asked \subseteq Prompt
  BY AskedAre DEF TypesGood
<1>7. \A q \in Grants(prompts)' : \E p \in Grants(prompts) : q = Old(p)
  BY <1>2, <1>5, <1>6 DEF Grants
<1>8. \A q \in Grants(Asked)' : \/ q \in Grants(prompts)'
                                \/ \E m \in mail : q = m.prompt /\ q \in Grants(Asked)
  BY <1>2 DEF Grants, Asked
<1>9. Grants(prompts) \subseteq Grants(Asked)
  BY DEF Grants, Asked
<1>10. ASSUME NEW q \in Grants(Asked)'
       PROVE  \E p \in Grants(Asked) :
                p.req = q.req /\ p.capsule = q.capsule /\ (p.req # r => q = p)
  BY <1>5, <1>6, <1>7, <1>8, <1>9 DEF Grants
<1>11. Approvals(Asked)' = Approvals(Asked)
  <2>1. Approvals(prompts)' = Approvals(prompts)
    BY <1>2, <1>5, <1>6 DEF Approvals
  <2> QED BY <1>2, <2>1 DEF Approvals, Asked
<1>12. TypesGood'
  <2>1. prompts' \subseteq Prompt
    BY <1>2, <1>5, <1>6
  <2> QED BY <1>2, <1>3, <1>4, <2>1 DEF TypesGood
<1>13. SignalsGood'
  <2>1. \A j \in Capsule : Pending(j)' => Pending(j) /\ marker'[j] = marker[j]
    BY <1>4
  <2> QED BY <1>2, <1>3, <1>10, <1>11, <2>1 DEF SignalsGood, Settled
<1>14. PromptsGood'
  BY <1>3, <1>10, <1>11 DEF PromptsGood, Settled
<1>15. MarkersGood'
  <2>1. ASSUME NEW j \in Capsule, Pending(j)', NEW q \in Grants(Asked)', q.req = marker'[j].req
        PROVE  q.capsule = j /\ q.live
    <3>1. j # k /\ marker'[j] = marker[j] /\ Pending(j)
      BY <1>4, <2>1
    <3>2. PICK p \in Grants(Asked) :
            p.req = q.req /\ p.capsule = q.capsule /\ (p.req # r => q = p)
      BY <1>10
    <3>3. p.capsule = j /\ p.live /\ (p.req = r => p.capsule = k)
      BY <1>1, <1>2, <2>1, <3>1, <3>2 DEF MarkersGood
    <3> QED BY <3>1, <3>2, <3>3
  <2>2. ASSUME NEW q \in Grants(prompts)', q.live
        PROVE  Paired(q)'
    <3>1. PICK p \in Grants(prompts) : q = Old(p)
      BY <1>7
    <3>2. q = p /\ p.req # r
      BY <1>5, <1>6, <2>2, <3>1 DEF Grants
    <3>3. Paired(p) /\ p.capsule \in Capsule
      BY <1>6, <1>9, <2>2, <3>2, PromptKinds DEF MarkersGood
    <3>4. p.capsule # k
      BY <1>1, <3>2, <3>3 DEF Paired
    <3> QED BY <1>4, <3>2, <3>3, <3>4 DEF Paired, Pending
  <2>3. ASSUME NEW q \in Grants(prompts)', NEW m \in mail, m.prompt \in Grants(Asked),
               q.req = m.prompt.req
        PROVE  FALSE
    <3>1. PICK p \in Grants(prompts) : q = Old(p)
      BY <1>7
    <3>2. p.req = m.prompt.req
      BY <1>5, <1>6, <2>3, <3>1 DEF Grants
    <3> QED BY <2>3, <3>2 DEF MarkersGood
  <2>4. ASSUME NEW q \in Grants(prompts)', NEW o \in Grants(Asked)', q.req = o.req
        PROVE  q = o
    <3>1. o \in Grants(prompts)'
      BY <1>8, <2>3, <2>4
    <3>2. PICK p \in Grants(prompts), d \in Grants(prompts) : q = Old(p) /\ o = Old(d)
      BY <1>7, <3>1
    <3>3. p.req = d.req
      BY <1>5, <1>6, <2>4, <3>2 DEF Grants
    <3> QED BY <1>9, <3>2, <3>3 DEF MarkersGood
  <2>5. ASSUME NEW m \in mail, m.prompt \in Grants(prompts)'
        PROVE  FALSE
    <3>1. m.prompt \in Grants(Asked)
      BY <2>5, AskedAre DEF Grants
    <3> QED BY <2>3, <2>5, <3>1
  <2> QED BY <1>2, <2>1, <2>2, <2>4, <2>5 DEF MarkersGood
<1>16. ToolsGood'
  BY <1>3 DEF ToolsGood, Asks, Settled
<1>17. SaidGood'
  BY <1>2, <1>3 DEF SaidGood
<1> QED BY <1>12, <1>13, <1>14, <1>15, <1>16, <1>17

-----------------------------------------------------------------------------
(* The invariant holds throughout.                                         *)

LEMMA InitEstablishes ==
  ASSUME Init
  PROVE  ConsentInv
<1>1. TypesGood
  <2>1. said = [capsules |-> granted, evicted |-> {}]
    BY DEF Init
  <2>2. said = [capsules |-> said.capsules, evicted |-> said.evicted]
    BY <2>1
  <2> QED BY <2>2 DEF Init, TypesGood
<1>2. SignalsGood /\ PromptsGood /\ ToolsGood
  BY DEF Init, SignalsGood, PromptsGood, ToolsGood, Asks, Settled, Asked, Grants, Approvals
<1>3. MarkersGood
  BY DEF Init, MarkersGood, Pending, Grants
<1>4. SaidGood
  BY DEF Init, SaidGood
<1> QED BY <1>1, <1>2, <1>3, <1>4 DEF ConsentInv

LEMMA NextKeeps ==
  ASSUME ConsentInv, [Next]_vars
  PROVE  ConsentInv'
<1>1. ASSUME NEW k \in Capsule, ToolCall(k) \/ MarkerExpires(k)
      PROVE  ConsentInv'
  BY <1>1, ToolCallKeeps, MarkerExpiresKeeps
<1>2. ASSUME NEW n \in Call, Delivered(n) \/ ToolAsks(n) \/ ToolEnds(n)
      PROVE  ConsentInv'
  BY <1>2, DeliveredKeeps, ToolAsksKeeps, ToolEndsKeeps
<1>3. ASSUME NEW r \in Request, WaiterExpires(r) \/ ApprovalRequired(r) \/ GrantRequired(r)
      PROVE  ConsentInv'
  BY <1>3, WaiterExpiresKeeps, ApprovalRequiredKeeps, GrantRequiredKeeps
<1>4. ASSUME NEW p \in prompts, NEW yes \in BOOLEAN, Answer(p, yes)
      PROVE  ConsentInv'
  BY <1>4, AnswerKeeps
<1>5. ASSUME NEW m \in mail, IngressRespond(m) \/ GrantRespond(m) \/ ApprovalRespond(m)
      PROVE  ConsentInv'
  BY <1>5, IngressRespondKeeps, GrantRespondKeeps, ApprovalRespondKeeps
<1>6. CASE DispatchEnds \/ RouteExpires
  BY <1>6, DispatchEndsKeeps, RouteExpiresKeeps
<1>7. CASE UNCHANGED vars
  <2>1. ToolsGood'
    BY <1>7 DEF vars, host, ConsentInv, ToolsGood, Asks, Settled
  <2> QED BY <1>7, <2>1, QuietKeeps DEF vars, kv, host, ConsentInv, TypesGood
<1> QED BY <1>1, <1>2, <1>3, <1>4, <1>5, <1>6, <1>7 DEF Next

LEMMA ConsentInvHolds ==
  Spec => []ConsentInv
<1>1. Init => ConsentInv
  BY InitEstablishes
<1>2. ConsentInv /\ [Next]_vars => ConsentInv'
  BY NextKeeps
<1> QED BY <1>1, <1>2, PTL DEF Spec

-----------------------------------------------------------------------------
(* What the broker promises.                                               *)

\* A capsule is used, now or after the next refusal, only if the human said yes
\* to a prompt for it while that prompt still counted (take_grant_pending),
\* whatever is refused, lost, late or answered twice.
THEOREM ConsentHolds ==
  Spec => []Consent
<1>1. ConsentInv => Consent
  BY DEF ConsentInv, SaidGood, Consent
<1> QED BY <1>1, ConsentInvHolds, PTL

\* However many calls are refused, the human has one prompt that counts per
\* capsule (grant_pending).
THEOREM OnePromptCounts ==
  Spec => []OnePrompt
<1>1. ASSUME ConsentInv, NEW k \in Capsule
      PROVE  Cardinality({p \in prompts : p.kind = "grant" /\ p.capsule = k /\ p.live}) <= 1
  <2>1. PICK S : S = {p \in prompts : p.kind = "grant" /\ p.capsule = k /\ p.live}
    OBVIOUS
  <2>2. \A p \in S, q \in S : p = q
    <3>1. \A p \in S : p \in Grants(prompts) /\ p \in Grants(Asked) /\ marker[k].req = p.req
      BY <1>1, <2>1 DEF Grants, Asked, ConsentInv, MarkersGood, Paired
    <3> QED BY <1>1, <3>1 DEF ConsentInv, MarkersGood
  <2>3. CASE S = {}
    BY <2>1, <2>3, FS_EmptySet
  <2>4. CASE S # {}
    <3>1. PICK p : S = {p}
      BY <2>2, <2>4
    <3>2. Cardinality(S) = 1
      BY <3>1, FS_Singleton
    <3> QED BY <2>1, <3>2
  <2> QED BY <2>3, <2>4
<1>2. ConsentInv => OnePrompt
  BY <1>1 DEF OnePrompt
<1> QED BY <1>2, ConsentInvHolds, PTL

-----------------------------------------------------------------------------
(* Answers.  A tool that is parked has a prompt of its own, and its route  *)
(* is in the table until its prompt is answered, or the table forgot it.   *)

Route == [req : Request, call : Call]

\* Nothing is sent out, and so nothing asked, for a source that is not trusted.
Trusting == broker # None \/ Approvals(Asked) # {} => trusted

\* A call that the kernel refused is gone.
RefusedGone == \A r \in Request : ~Settled(r) /\ waiter[r].grant => tool[waiter[r].call] = None

\* A prompt whose tool still waits has a route, or is one the table forgot.
RoutesLead ==
  \A p \in Approvals(Asked) : ~Settled(p.req) => p.req \in said.evicted \/ HasRoute(p)

RoutesGood == routes \in Seq(Route) /\ Trusting /\ RefusedGone /\ RoutesLead
AnswerInv  == ConsentInv /\ RoutesGood

\* A tool that is gone stays gone as long as nobody takes its call's number.
LEMMA GoneKept ==
  ASSUME AnswerInv, \A r \in Request : waiter'[r] \in {waiter[r], None},
         \A n \in Call : tool[n] = None => tool'[n] = None
  PROVE  RefusedGone'
<1> SUFFICES ASSUME NEW r \in Request, waiter'[r] # None, waiter'[r].grant
             PROVE  tool'[waiter'[r].call] = None
  BY DEF RefusedGone, Settled
<1>1. waiter'[r] = waiter[r] /\ waiter[r].call \in Call /\ tool[waiter[r].call] = None
  BY DEF AnswerInv, ConsentInv, RoutesGood, RefusedGone, TypesGood, Waiter, Settled
<1> QED BY <1>1

\* An answer changes no tool but the one that asked, which is not gone.
LEMMA ToldAlone ==
  ASSUME AnswerInv, NEW r \in Request, NEW yes \in BOOLEAN, Decide(r, yes)
  PROVE  /\ \A n \in Call : tool[n] = None => tool'[n] = None
         /\ \A n \in Call : tool'[n] = tool[n] \/ (Asks(r) /\ n = waiter[r].call)
         /\ Asks(r) => /\ tool'[waiter[r].call] # None
                       /\ tool'[waiter[r].call].state = IF yes THEN "approved" ELSE "denied"
         /\ \A q \in Request : waiter'[q] \in {waiter[q], None}
         /\ waiter'[r] = None
<1>1. \A q \in Request : waiter'[q] = IF q = r THEN None ELSE waiter[q]
  BY DecideDecides DEF AnswerInv, ConsentInv
<1>2. CASE ~Asks(r)
  <2>1. tool' = tool
    BY <1>2, DecideDecides DEF AnswerInv, ConsentInv, Asks
  <2> QED BY <1>1, <1>2, <2>1
<1>3. CASE Asks(r)
  <2>1. PICK c \in Call : c = waiter[r].call /\ tool[c] # None /\ tool[c] \in Tool
    BY <1>3 DEF AnswerInv, ConsentInv, ToolsGood, TypesGood, Asks, Settled, Waiter
  <2>2. PICK s \in AtWork : s = IF yes THEN "approved" ELSE "denied"
    BY DEF AtWork
  <2>3. tool' = [tool EXCEPT ![c].state = s]
    BY <1>3, <2>1, <2>2, DecideDecides DEF AnswerInv, ConsentInv
  <2>4. PICK k \in Capsule : k = tool[c].capsule
    BY <2>1 DEF Tool
  <2>5. [tool[c] EXCEPT !.state = s] = [capsule |-> k, state |-> s]
    BY <2>1, <2>4 DEF Tool
  <2>6. [capsule |-> k, state |-> s] # None
    BY <2>2, NoneIsApart
  <2>7. tool \in [Call -> Tool \cup {None}]
    BY DEF AnswerInv, ConsentInv, TypesGood
  <2>8. tool'[c] = [capsule |-> k, state |-> s] /\ \A n \in Call \ {c} : tool'[n] = tool[n]
    BY <2>3, <2>5, <2>7
  <2> QED BY <1>1, <1>3, <2>1, <2>2, <2>6, <2>8
<1> QED BY <1>2, <1>3

\* What does not touch the table of routes.
LEMMA RoutesKeep ==
  ASSUME AnswerInv, RefusedGone', routes' = routes, said.evicted \subseteq said'.evicted,
         Approvals(Asked)' \subseteq Approvals(Asked),
         trusted => trusted', broker' # None => trusted',
         \A p \in Approvals(Asked)' : ~Settled(p.req)' => ~Settled(p.req)
  PROVE  RoutesGood'
<1> USE DEF AnswerInv, RoutesGood
<1>1. Trusting'
  BY DEF Trusting
<1>2. RoutesLead'
  BY DEF RoutesLead, HasRoute, RouteOf
<1> QED BY <1>1, <1>2

\* ... and changes nothing but what the broker is in.
LEMMA IdleKeeps ==
  ASSUME AnswerInv, UNCHANGED <<routes, tool, waiter, said, mail, prompts>>,
         trusted => trusted', broker' # None => trusted'
  PROVE  RoutesGood'
<1>1. RefusedGone'
  BY DEF AnswerInv, RoutesGood, RefusedGone, Settled
<1> QED BY <1>1, RoutesKeep DEF Asked, Approvals, Settled

\* A new request.
LEMMA RaiseKeepsRoutes ==
  ASSUME AnswerInv, NEW n \in Call, NEW grant \in BOOLEAN, tool[n] # None, Raise(n, grant),
         UNCHANGED <<kv, granted, prompts, mail, said>>,
         tool' \in [Call -> Tool \cup {None}], grant => tool'[n] = None,
         \A m \in Call \ {n} : tool'[m] = tool[m]
  PROVE  RoutesGood'
<1> USE DEF AnswerInv
<1>1. PICK r \in Request :
        /\ FreeRequest(r)
        /\ waiter' = [waiter EXCEPT ![r] =
                      [capsule |-> tool[n].capsule, call |-> n, grant |-> grant]]
        /\ broker' = IF broker # None /\ broker.leg = "dispatch"
                       THEN [broker EXCEPT !.signals = Append(@, r)] ELSE broker
  BY RaiseRaises
<1>2. /\ waiter'[r].call = n /\ waiter'[r].grant = grant
      /\ \A q \in Request \ {r} : waiter'[q] = waiter[q]
  BY <1>1 DEF ConsentInv, TypesGood
<1>3. RefusedGone'
  <2> SUFFICES ASSUME NEW q \in Request, waiter'[q] # None, waiter'[q].grant
               PROVE  tool'[waiter'[q].call] = None
    BY DEF RefusedGone, Settled
  <2>1. CASE q = r
    BY <1>2, <2>1
  <2>2. CASE q # r
    <3>1. waiter'[q] = waiter[q] /\ waiter[q].call \in Call /\ tool[waiter[q].call] = None
      BY <1>2, <2>2 DEF ConsentInv, RoutesGood, RefusedGone, TypesGood, Waiter, Settled
    <3> QED BY <3>1
  <2> QED BY <2>1, <2>2
<1>4. /\ routes' = routes /\ trusted' = trusted /\ said' = said
      /\ Approvals(Asked)' = Approvals(Asked)
  BY DEF kv, Approvals, Asked
<1>5. \A p \in Approvals(Asked) : p.req # r /\ p.req \in Request
  BY <1>1, FreeIsFree, PromptKinds, AskedAre DEF ConsentInv
<1>6. \A p \in Approvals(Asked)' : ~Settled(p.req)' => ~Settled(p.req)
  BY <1>2, <1>4, <1>5 DEF Settled
<1>7. broker' # None => trusted'
  BY <1>1, <1>4 DEF RoutesGood, Trusting
<1> QED BY <1>3, <1>4, <1>6, <1>7, RoutesKeep
-----------------------------------------------------------------------------
(* Every step keeps the routes.                                            *)

\* A call takes a number that no refused one had.
LEMMA ToolCallKeepsRoutes ==
  ASSUME AnswerInv, NEW k \in Capsule, ToolCall(k)
  PROVE  RoutesGood'
<1> USE DEF AnswerInv
<1>1. broker = None /\ UNCHANGED <<trusted, decision, marker, routes, waiter, granted, mail, said>>
  BY DEF ToolCall
<1>2. CASE prompts' = prompts \cup {[kind |-> "ingress"]} /\ UNCHANGED <<broker, tool>>
  <2>1. Approvals(Asked)' = Approvals(Asked)
    BY <1>1, <1>2 DEF Approvals, Asked
  <2>2. RefusedGone'
    BY <1>1, <1>2 DEF RoutesGood, RefusedGone, Settled
  <2> QED BY <1>1, <1>2, <2>1, <2>2, RoutesKeep DEF Settled
<1>3. CASE trusted /\ prompts' = prompts /\ \E n \in Call :
             FreeCall(n) /\ tool' = [tool EXCEPT ![n] = [capsule |-> k, state |-> "sent"]]
  <2>1. PICK n \in Call :
             FreeCall(n) /\ tool' = [tool EXCEPT ![n] = [capsule |-> k, state |-> "sent"]]
    BY <1>3
  <2>2. \A m \in Call \ {n} : tool'[m] = tool[m]
    BY <2>1 DEF ConsentInv, TypesGood
  <2>3. ASSUME NEW r \in Request, waiter'[r] # None, waiter'[r].grant
        PROVE  tool'[waiter'[r].call] = None
    <3>1. ~Settled(r) /\ waiter[r].grant /\ waiter[r].call \in Call /\ waiter[r].call # n
      BY <1>1, <2>1, <2>3 DEF FreeCall, Settled, ConsentInv, TypesGood, Waiter
    <3> QED BY <1>1, <2>2, <3>1 DEF RoutesGood, RefusedGone
  <2>4. RefusedGone'
    BY <2>3 DEF RefusedGone, Settled
  <2> QED BY <1>1, <1>3, <2>4, RoutesKeep DEF Settled, Asked, Approvals
<1> QED BY <1>1, <1>2, <1>3 DEF ToolCall

\* A call runs, or is refused and gone.
LEMMA DeliveredKeepsRoutes ==
  ASSUME AnswerInv, NEW n \in Call, Delivered(n)
  PROVE  RoutesGood'
<1> USE DEF AnswerInv
<1>1. /\ tool \in [Call -> Tool \cup {None}] /\ tool[n] # None
      /\ UNCHANGED <<kv, granted, prompts, mail, said>>
  BY DEF Delivered, ConsentInv, TypesGood
<1>2. CASE tool' = [tool EXCEPT ![n].state = "running"] /\ UNCHANGED <<waiter, broker>>
  <2>1. \A m \in Call : tool[m] = None => tool'[m] = None
    BY <1>1, <1>2
  <2>2. RefusedGone'
    BY <1>2, <2>1, GoneKept
  <2> QED BY <1>1, <1>2, <2>2, RoutesKeep DEF kv, Settled, Asked, Approvals, RoutesGood, Trusting
<1>3. CASE Raise(n, TRUE) /\ tool' = [tool EXCEPT ![n] = None]
  <2>1. /\ tool' \in [Call -> Tool \cup {None}] /\ tool'[n] = None
        /\ \A m \in Call \ {n} : tool'[m] = tool[m]
    BY <1>1, <1>3
  <2> QED BY <1>1, <1>3, <2>1, RaiseKeepsRoutes
<1> QED BY <1>2, <1>3 DEF Delivered

LEMMA ToolAsksKeepsRoutes ==
  ASSUME AnswerInv, NEW n \in Call, ToolAsks(n)
  PROVE  RoutesGood'
<1>1. /\ tool \in [Call -> Tool \cup {None}] /\ tool[n] # None
      /\ UNCHANGED <<kv, granted, prompts, mail, said>>
      /\ Raise(n, FALSE) /\ tool' = [tool EXCEPT ![n].state = "parked"]
  BY DEF ToolAsks, AnswerInv, ConsentInv, TypesGood
<1>2. [tool[n] EXCEPT !.state = "parked"] \in Tool
  BY <1>1 DEF Tool
<1>3. tool' \in [Call -> Tool \cup {None}] /\ \A m \in Call \ {n} : tool'[m] = tool[m]
  BY <1>1, <1>2
<1> QED BY <1>1, <1>3, RaiseKeepsRoutes

LEMMA ToolEndsKeepsRoutes ==
  ASSUME AnswerInv, NEW n \in Call, ToolEnds(n)
  PROVE  RoutesGood'
<1> USE DEF AnswerInv
<1>1. /\ tool' = [tool EXCEPT ![n] = None]
      /\ broker' # None => broker # None
      /\ UNCHANGED <<kv, waiter, granted, prompts, mail, said>>
  BY DEF ToolEnds, InBroker
<1>2. \A m \in Call : tool[m] = None => tool'[m] = None
  BY <1>1 DEF ConsentInv, TypesGood
<1>3. RefusedGone'
  BY <1>1, <1>2, GoneKept
<1> QED BY <1>1, <1>3, RoutesKeep DEF kv, Settled, Asked, Approvals, RoutesGood, Trusting

\* Nobody waits any more: what a prompt was about is settled, or is as it was.
LEMMA WaiterExpiresKeepsRoutes ==
  ASSUME AnswerInv, NEW r \in Request, WaiterExpires(r)
  PROVE  RoutesGood'
<1> USE DEF AnswerInv
<1>1. /\ ~Settled(r) /\ waiter' = [waiter EXCEPT ![r] = None]
      /\ tool' = IF waiter[r].grant THEN tool
                 ELSE [tool EXCEPT ![waiter[r].call].state = "running"]
      /\ UNCHANGED <<kv, broker, granted, prompts, mail, said>>
  BY DEF WaiterExpires
<1>2. \A q \in Request : waiter'[q] \in {waiter[q], None}
  BY <1>1 DEF ConsentInv, TypesGood
<1>3. \A m \in Call : tool[m] = None => tool'[m] = None
  <2>1. CASE waiter[r].grant
    BY <1>1, <2>1
  <2>2. CASE ~waiter[r].grant
    <3>1. tool[waiter[r].call] # None
      BY <1>1, <2>2 DEF ConsentInv, ToolsGood, Asks
    <3> QED BY <1>1, <2>2, <3>1 DEF ConsentInv, TypesGood
  <2> QED BY <2>1, <2>2
<1>4. RefusedGone'
  BY <1>2, <1>3, GoneKept
<1>5. \A p \in Approvals(Asked) : p.req \in Request
  BY PromptKinds, AskedAre DEF ConsentInv
<1>6. /\ Approvals(Asked)' = Approvals(Asked) /\ routes' = routes /\ trusted' = trusted
      /\ said' = said /\ broker' = broker
  BY <1>1 DEF kv, Approvals, Asked
<1>7. \A p \in Approvals(Asked)' : ~Settled(p.req)' => ~Settled(p.req)
  BY <1>2, <1>5, <1>6 DEF Settled
<1> QED BY <1>4, <1>6, <1>7, RoutesKeep DEF RoutesGood, Trusting

\* A table without its oldest route, with one more, or without one, has the rest.
LEMMA TailHolds ==
  ASSUME NEW s \in Seq(Route), s # <<>>
  PROVE  /\ Tail(s) \in Seq(Route)
         /\ \A i \in DOMAIN s : s[i] = Head(s) \/ \E j \in DOMAIN Tail(s) : Tail(s)[j] = s[i]
<1>1. /\ Tail(s) \in Seq(Route) /\ Len(s) \in Nat \ {0} /\ DOMAIN s = 1 .. Len(s)
      /\ DOMAIN Tail(s) = 1 .. Len(s) - 1 /\ Head(s) = s[1]
      /\ \A j \in 1 .. Len(s) - 1 : Tail(s)[j] = s[j + 1]
  BY HeadTailProperties
<1>2. ASSUME NEW i \in DOMAIN s, i # 1
      PROVE  \E j \in DOMAIN Tail(s) : Tail(s)[j] = s[i]
  <2>1. i - 1 \in DOMAIN Tail(s) /\ Tail(s)[i - 1] = s[i]
    BY <1>1, <1>2
  <2> QED BY <2>1
<1> QED BY <1>1, <1>2

LEMMA AppendHolds ==
  ASSUME NEW s \in Seq(Route), NEW e \in Route
  PROVE  /\ Append(s, e) \in Seq(Route)
         /\ \E j \in DOMAIN Append(s, e) : Append(s, e)[j] = e
         /\ \A i \in DOMAIN s : i \in DOMAIN Append(s, e) /\ Append(s, e)[i] = s[i]
<1>1. /\ Append(s, e) \in Seq(Route) /\ DOMAIN Append(s, e) = 1 .. Len(s) + 1
      /\ Append(s, e)[Len(s) + 1] = e /\ Len(s) \in Nat /\ DOMAIN s = 1 .. Len(s)
      /\ \A i \in 1 .. Len(s) : Append(s, e)[i] = s[i]
  BY AppendProperties
<1>2. Len(s) + 1 \in DOMAIN Append(s, e)
  BY <1>1
<1> QED BY <1>1, <1>2

LEMMA RemoveAtHolds ==
  ASSUME NEW s \in Seq(Route), NEW i \in DOMAIN s
  PROVE  /\ RemoveAt(s, i) \in Seq(Route)
         /\ \A j \in DOMAIN s \ {i} : \E h \in DOMAIN RemoveAt(s, i) : RemoveAt(s, i)[h] = s[j]
<1>1. Len(s) \in Nat /\ DOMAIN s = 1 .. Len(s) /\ i \in 1 .. Len(s)
  BY LenProperties
<1>2. PICK f \in Seq(Route) : /\ f = SubSeq(s, 1, i - 1) /\ Len(f) = i - 1
                              /\ \A j \in 1 .. i - 1 : f[j] = s[j]
  <2>1. PICK n \in Int : n = i - 1 /\ \A j \in 1 .. n : s[j] \in Route
    BY <1>1, ElementOfSeq
  <2>2. /\ SubSeq(s, 1, n) \in Seq(Route)
        /\ Len(SubSeq(s, 1, n)) = IF 1 <= n THEN n - 1 + 1 ELSE 0
        /\ \A j \in 1 .. n - 1 + 1 : SubSeq(s, 1, n)[j] = s[1 + j - 1]
    BY <2>1, SubSeqProperties
  <2>3. \A j \in 1 .. n : SubSeq(s, 1, n)[j] = s[j]
    BY <2>1, <2>2
  <2>4. Len(SubSeq(s, 1, n)) = n
    BY <1>1, <2>1, <2>2
  <2> QED BY <2>1, <2>2, <2>3, <2>4
<1>3. PICK l \in Seq(Route) : /\ l = SubSeq(s, i + 1, Len(s)) /\ Len(l) = Len(s) - i
                              /\ \A j \in 1 .. Len(s) - i : l[j] = s[i + j]
  <2>1. PICK n \in Int, o \in Int : n = i + 1 /\ o = Len(s) /\ \A j \in n .. o : s[j] \in Route
    <3>1. i + 1 \in Int /\ Len(s) \in Int
      BY <1>1
    <3>2. ASSUME NEW j \in i + 1 .. Len(s)
          PROVE  s[j] \in Route
      <4>1. j \in 1 .. Len(s)
        BY <1>1
      <4> QED BY <4>1, ElementOfSeq
    <3> QED BY <3>1, <3>2
  <2>2. /\ SubSeq(s, n, o) \in Seq(Route)
        /\ Len(SubSeq(s, n, o)) = IF n <= o THEN o - n + 1 ELSE 0
        /\ \A j \in 1 .. o - n + 1 : SubSeq(s, n, o)[j] = s[n + j - 1]
    BY <2>1, SubSeqProperties
  <2>3. \A j \in 1 .. Len(s) - i :
          j \in 1 .. o - n + 1 /\ n + j - 1 = i + j
    <3>1. i \in Nat /\ Len(s) \in Nat /\ n = i + 1 /\ o = Len(s)
      BY <1>1, <2>1
    <3>2. \A h \in Nat, z \in Nat : \A j \in 1 .. z - h :
            j \in 1 .. z - (h + 1) + 1 /\ (h + 1) + j - 1 = h + j
      OBVIOUS
    <3>3. \A j \in 1 .. Len(s) - i :
            j \in 1 .. Len(s) - (i + 1) + 1 /\ (i + 1) + j - 1 = i + j
      BY <3>1, <3>2
    <3> QED BY <3>1, <3>3
  <2>4. Len(SubSeq(s, n, o)) = Len(s) - i
    BY <1>1, <2>1, <2>2
  <2> QED BY <2>1, <2>2, <2>3, <2>4
<1>4. RemoveAt(s, i) = f \o l
  BY <1>2, <1>3 DEF RemoveAt
<1>5. /\ f \o l \in Seq(Route) /\ DOMAIN (f \o l) = 1 .. Len(s) - 1
      /\ \A j \in 1 .. Len(s) - 1 : (f \o l)[j] = IF j <= i - 1 THEN f[j] ELSE l[j - (i - 1)]
  <2>1. /\ f \o l \in Seq(Route) /\ Len(f \o l) = Len(f) + Len(l)
        /\ \A j \in 1 .. Len(f) + Len(l) : (f \o l)[j] =
             IF j <= Len(f) THEN f[j] ELSE l[j - Len(f)]
    BY ConcatProperties
  <2>2. Len(f) + Len(l) = Len(s) - 1
    <3>1. i \in Int /\ Len(s) \in Int
      BY <1>1
    <3>2. (i - 1) + (Len(s) - i) = Len(s) - 1
      BY <3>1
    <3> QED BY <1>2, <1>3, <3>2
  <2>3. DOMAIN (f \o l) = 1 .. Len(f \o l)
    BY <2>1, LenProperties
  <2> QED BY <1>2, <2>1, <2>2, <2>3
<1>6. ASSUME NEW j \in DOMAIN s, j # i
      PROVE  \E h \in DOMAIN (f \o l) : (f \o l)[h] = s[j]
  <2>1. CASE j < i
    <3>1. j \in DOMAIN (f \o l) /\ (f \o l)[j] = s[j]
      BY <1>1, <1>2, <1>5, <2>1
    <3> QED BY <3>1
  <2>2. CASE j > i
    <3>1. j - 1 \in 1 .. Len(s) - 1 /\ ~(j - 1 <= i - 1) /\ j - i \in 1 .. Len(s) - i
          /\ (j - 1) - (i - 1) = j - i /\ i + (j - i) = j
      BY <1>1, <2>2
    <3>2. (f \o l)[j - 1] = l[j - i]
      BY <1>5, <3>1
    <3>3. l[j - i] = s[j]
      BY <1>3, <3>1
    <3> QED BY <1>5, <3>1, <3>2, <3>3
  <2> QED BY <1>1, <1>6, <2>1, <2>2
<1> QED BY <1>4, <1>5, <1>6

\* A new prompt has a route; the table may forget one for it.
LEMMA ApprovalRequiredKeepsRoutes ==
  ASSUME AnswerInv, NEW r \in Request, ApprovalRequired(r)
  PROVE  RoutesGood'
<1> USE DEF AnswerInv
<1>1. PICK e : e = [req |-> r, call |-> broker.call]
  OBVIOUS
<1>2. /\ Signal(r) /\ broker' = None
      /\ prompts' = prompts \cup {[kind |-> "approval", req |-> r, call |-> broker.call]}
      /\ routes' = Append(RoutesKept, e)
      /\ said' = [said EXCEPT !.evicted =
                    (@ \ {r}) \cup IF TableFull THEN {Head(routes).req} ELSE {}]
      /\ UNCHANGED <<trusted, ingress, decision, marker, host, mail>>
  BY <1>1 DEF ApprovalRequired
<1>3. broker # None /\ r \in Range(broker.signals)
  BY <1>2, SignalWasSent DEF ConsentInv
<1>4. e \in Route /\ e.req = r
  BY <1>1, <1>3 DEF ConsentInv, TypesGood, Broker, Route
<1>5. PICK p : /\ p = [kind |-> "approval", req |-> r, call |-> broker.call]
               /\ p.kind = "approval" /\ p.req = r
  <2>1. PICK p : p = [kind |-> "approval", req |-> r, call |-> broker.call]
    OBVIOUS
  <2>2. p.kind = "approval" /\ p.req = r
    BY <2>1
  <2> QED BY <2>1, <2>2
<1>6. Approvals(Asked)' = Approvals(Asked) \cup {p}
  BY <1>2, <1>5 DEF Approvals, Asked
<1>7. said'.evicted = (said.evicted \ {r}) \cup IF TableFull THEN {Head(routes).req} ELSE {}
  <2>1. PICK c, f : said = [capsules |-> c, evicted |-> f]
    BY DEF ConsentInv, TypesGood
  <2> QED BY <1>2, <2>1
<1>8. routes \in Seq(Route)
  BY DEF RoutesGood
<1>9. /\ RoutesKept \in Seq(Route)
      /\ \A i \in DOMAIN routes :
           \/ TableFull /\ routes[i] = Head(routes)
           \/ \E j \in DOMAIN RoutesKept : RoutesKept[j] = routes[i]
  <2>1. CASE TableFull
    <3>1. routes # <<>>
      BY <2>1, ConstantsAssumption DEF TableFull
    <3> QED BY <1>8, <2>1, <3>1, TailHolds DEF RoutesKept
  <2>2. CASE ~TableFull
    BY <1>8, <2>2 DEF RoutesKept
  <2> QED BY <2>1, <2>2
<1>10. PICK kept \in Seq(Route) : kept = RoutesKept
  BY <1>9
<1>11. /\ routes' \in Seq(Route) /\ \E j \in DOMAIN routes' : routes'[j].req = r
       /\ \A i \in DOMAIN kept : \E j \in DOMAIN routes' : routes'[j] = kept[i]
  <2>1. routes' = Append(kept, e)
    BY <1>2, <1>10
  <2> QED BY <1>4, <2>1, AppendHolds
<1>12. ASSUME NEW q \in Approvals(Asked)', ~Settled(q.req)'
       PROVE  q.req \in said'.evicted \/ HasRoute(q)'
  <2>1. CASE q = p
    <3>1. RouteOf(q)' # {}
      BY <1>5, <1>11, <2>1 DEF RouteOf
    <3> QED BY <3>1 DEF HasRoute
  <2>2. CASE q \in Approvals(Asked)
    <3>1. q.req # r
      BY <1>3, <2>2 DEF ConsentInv, SignalsGood
    <3>2. q.req \in said.evicted \/ \E i \in DOMAIN routes : routes[i].req = q.req
      BY <1>2, <1>12, <2>2 DEF RoutesGood, RoutesLead, HasRoute, RouteOf, Settled, host
    <3>3. CASE q.req \in said.evicted
      BY <1>7, <3>1, <3>3
    <3>4. CASE \E i \in DOMAIN routes : routes[i].req = q.req
      <4>1. PICK i \in DOMAIN routes : routes[i].req = q.req
        BY <3>4
      <4>2. CASE TableFull /\ routes[i] = Head(routes)
        BY <1>7, <4>1, <4>2
      <4>3. CASE \E j \in DOMAIN kept : kept[j] = routes[i]
        <5>1. RouteOf(q)' # {}
          BY <1>11, <4>1, <4>3 DEF RouteOf
        <5> QED BY <5>1 DEF HasRoute
      <4> QED BY <1>9, <1>10, <4>2, <4>3
    <3> QED BY <3>2, <3>3, <3>4
  <2> QED BY <1>6, <2>1, <2>2
<1>13. Trusting'
  BY <1>2, <1>3 DEF RoutesGood, Trusting
<1>14. RefusedGone'
  BY <1>2 DEF RoutesGood, RefusedGone, Settled, host
<1>15. RoutesLead'
  BY <1>12 DEF RoutesLead
<1> QED BY <1>11, <1>13, <1>14, <1>15 DEF RoutesGood

\* A refusal that is answered at once is one that no tool waits for.
LEMMA GrantRequiredKeepsRoutes ==
  ASSUME AnswerInv, NEW r \in Request, GrantRequired(r)
  PROVE  RoutesGood'
<1> USE DEF AnswerInv
<1>1. /\ broker' = None /\ UNCHANGED <<trusted, ingress, decision, routes, mail, said>>
      /\ Decide(r, TRUE) \/ UNCHANGED host
      /\ \/ prompts' = prompts
         \/ \E k : prompts' = prompts \cup
              {[kind |-> "grant", req |-> r, capsule |-> k, live |-> TRUE]}
  BY DEF GrantRequired
<1>2. Approvals(Asked)' = Approvals(Asked)
  BY <1>1 DEF Approvals, Asked
<1>3. /\ \A n \in Call : tool[n] = None => tool'[n] = None
      /\ \A q \in Request : waiter'[q] \in {waiter[q], None}
  BY <1>1, ToldAlone DEF host
<1>4. RefusedGone'
  BY <1>3, GoneKept
<1>5. \A p \in Approvals(Asked) : p.req \in Request
  BY PromptKinds, AskedAre DEF ConsentInv
<1>6. \A p \in Approvals(Asked)' : ~Settled(p.req)' => ~Settled(p.req)
  BY <1>2, <1>3, <1>5 DEF Settled
<1> QED BY <1>1, <1>2, <1>4, <1>6, RoutesKeep

\* An answer is sent, or lost.
LEMMA AnswerKeepsRoutes ==
  ASSUME AnswerInv, NEW p \in prompts, NEW yes \in BOOLEAN, Answer(p, yes)
  PROVE  RoutesGood'
<1> USE DEF AnswerInv
<1>1. /\ mail = {} /\ prompts' = prompts \ {p}
      /\ mail' \in {mail, mail \cup {[prompt |-> p, yes |-> yes]}}
      /\ said' = said \/ \E c : said' = [said EXCEPT !.capsules = c]
      /\ UNCHANGED <<kv, broker, host>>
  BY DEF Answer
<1>2. \A m \in mail' : m.prompt = p
  BY <1>1
<1>3. Approvals(Asked)' \subseteq Approvals(Asked)
  BY <1>1, <1>2 DEF Approvals, Asked
<1>4. said'.evicted = said.evicted
  <2>1. PICK c, e : said = [capsules |-> c, evicted |-> e]
    BY DEF ConsentInv, TypesGood
  <2> QED BY <1>1, <2>1
<1>5. RefusedGone'
  BY <1>1 DEF RoutesGood, RefusedGone, Settled, host
<1> QED BY <1>1, <1>3, <1>4, <1>5, RoutesKeep DEF kv, host, Settled, RoutesGood, Trusting

LEMMA IngressRespondKeepsRoutes ==
  ASSUME AnswerInv, NEW m \in mail, IngressRespond(m)
  PROVE  RoutesGood'
<1> USE DEF AnswerInv
<1>1. /\ broker = None /\ mail' = mail \ {m} /\ (trusted => trusted')
      /\ UNCHANGED <<routes, broker, host, prompts, said>>
  BY DEF IngressRespond
<1>2. RefusedGone'
  BY <1>1 DEF RoutesGood, RefusedGone, Settled, host
<1> QED BY <1>1, <1>2, MailTaken, RoutesKeep DEF host, Settled

LEMMA GrantRespondKeepsRoutes ==
  ASSUME AnswerInv, NEW m \in mail, GrantRespond(m)
  PROVE  RoutesGood'
<1> USE DEF AnswerInv
<1>1. PICK p : p = m.prompt
  OBVIOUS
<1>2. /\ broker = None /\ mail' = mail \ {m} /\ p.kind = "grant"
      /\ UNCHANGED <<trusted, ingress, routes, broker, prompts, said>>
      /\ Decide(p.req, trusted /\ m.yes) \/ UNCHANGED host
  BY <1>1 DEF GrantRespond
<1>3. PICK yes \in BOOLEAN : Decide(p.req, yes) \/ UNCHANGED host
  <2>1. (trusted /\ m.yes) \in BOOLEAN
    OBVIOUS
  <2> QED BY <1>2, <2>1
<1>4. p.req \in Request
  BY <1>1, <1>2, PromptKinds, AskedAre DEF ConsentInv, Grants
<1>5. /\ \A n \in Call : tool[n] = None => tool'[n] = None
      /\ \A q \in Request : waiter'[q] \in {waiter[q], None}
  BY <1>3, <1>4, ToldAlone DEF host
<1>6. RefusedGone'
  BY <1>5, GoneKept
<1>7. Approvals(Asked)' \subseteq Approvals(Asked)
  BY <1>2, MailTaken
<1>8. \A q \in Approvals(Asked) : q.req \in Request
  BY PromptKinds, AskedAre DEF ConsentInv
<1>9. \A q \in Approvals(Asked)' : ~Settled(q.req)' => ~Settled(q.req)
  BY <1>5, <1>7, <1>8 DEF Settled
<1> QED BY <1>2, <1>6, <1>7, <1>9, RoutesKeep DEF RoutesGood, Trusting

\* The route that is used is the one of a request that is settled then.
LEMMA ApprovalRespondKeepsRoutes ==
  ASSUME AnswerInv, NEW m \in mail, ApprovalRespond(m)
  PROVE  RoutesGood'
<1> USE DEF AnswerInv
<1>1. PICK p : p = m.prompt
  OBVIOUS
<1>2. /\ mail' = mail \ {m} /\ p.kind = "approval"
      /\ routes' = RoutesAfter(p)
      /\ said' = [said EXCEPT !.evicted = @ \ {p.req}]
      /\ UNCHANGED <<trusted, ingress, decision, marker, prompts>>
      /\ Decide(p.req, trusted /\ m.yes) \/ Decide(p.req, FALSE)
  BY <1>1 DEF ApprovalRespond
<1>3. PICK yes \in BOOLEAN : Decide(p.req, yes)
  <2>1. (trusted /\ m.yes) \in BOOLEAN
    OBVIOUS
  <2> QED BY <1>2, <2>1
<1>4. p \in Approvals(Asked) /\ p.req \in Request
  <2>1. p \in Approvals(Asked)
    BY <1>1, <1>2, AskedAre DEF Approvals
  <2> QED BY <2>1, PromptKinds, AskedAre DEF ConsentInv
<1>5. /\ \A n \in Call : tool[n] = None => tool'[n] = None
      /\ \A q \in Request : waiter'[q] \in {waiter[q], None}
      /\ waiter'[p.req] = None
  BY <1>3, <1>4, ToldAlone
<1>6. RefusedGone'
  BY <1>5, GoneKept
<1>7. Approvals(Asked)' \subseteq Approvals(Asked)
  BY <1>2, MailTaken
<1>8. Trusting'
  BY <1>2, <1>4 DEF RoutesGood, Trusting
<1>9. said'.evicted = said.evicted \ {p.req}
  <2>1. PICK c, e : said = [capsules |-> c, evicted |-> e]
    BY DEF ConsentInv, TypesGood
  <2> QED BY <1>2, <2>1
<1>10. routes \in Seq(Route)
  BY DEF RoutesGood
<1>11. /\ routes' \in Seq(Route)
       /\ \A i \in DOMAIN routes : routes[i].req # p.req =>
            \E j \in DOMAIN routes' : routes'[j] = routes[i]
  <2>1. CASE HasRoute(p)
    <3>1. PICK h : h \in RouteOf(p) /\ h = CHOOSE i \in RouteOf(p) : TRUE
      BY <2>1 DEF HasRoute
    <3>2. h \in DOMAIN routes /\ routes[h].req = p.req
      BY <3>1 DEF RouteOf
    <3>3. routes' = RemoveAt(routes, h)
      BY <1>2, <2>1, <3>1 DEF RoutesAfter
    <3> QED BY <1>10, <3>2, <3>3, RemoveAtHolds
  <2>2. CASE ~HasRoute(p)
    BY <1>2, <1>10, <2>2 DEF RoutesAfter
  <2> QED BY <2>1, <2>2
<1>12. ASSUME NEW q \in Approvals(Asked)', ~Settled(q.req)'
       PROVE  q.req \in said'.evicted \/ HasRoute(q)'
  <2>1. q \in Approvals(Asked) /\ q.req \in Request
    BY <1>7, PromptKinds, AskedAre DEF ConsentInv
  <2>2. ~Settled(q.req) /\ q.req # p.req
    BY <1>5, <1>12, <2>1 DEF Settled
  <2>3. q.req \in said.evicted \/ \E i \in DOMAIN routes : routes[i].req = q.req
    BY <2>1, <2>2 DEF RoutesGood, RoutesLead, HasRoute, RouteOf
  <2>4. CASE q.req \in said.evicted
    BY <1>9, <2>2, <2>4
  <2>5. CASE \E i \in DOMAIN routes : routes[i].req = q.req
    <3>1. PICK j \in DOMAIN routes' : routes'[j].req = q.req
      BY <1>11, <2>2, <2>5
    <3>2. RouteOf(q)' # {}
      BY <3>1 DEF RouteOf
    <3> QED BY <3>2 DEF HasRoute
  <2> QED BY <2>3, <2>4, <2>5
<1>13. RoutesLead'
  BY <1>12 DEF RoutesLead
<1> QED BY <1>6, <1>8, <1>11, <1>13 DEF RoutesGood

LEMMA DispatchEndsKeepsRoutes ==
  ASSUME AnswerInv, DispatchEnds
  PROVE  RoutesGood'
BY IdleKeeps DEF DispatchEnds, kv, host

\* A route that is too old is one nobody waits for.
LEMMA RouteExpiresKeepsRoutes ==
  ASSUME AnswerInv, RouteExpires
  PROVE  RoutesGood'
<1> USE DEF AnswerInv
<1>1. /\ routes # <<>> /\ Settled(Head(routes).req) /\ routes' = Tail(routes)
      /\ UNCHANGED <<trusted, ingress, decision, marker, broker, host, prompts, mail, said>>
  BY DEF RouteExpires
<1>2. routes \in Seq(Route)
  BY DEF RoutesGood
<1>3. /\ routes' \in Seq(Route)
      /\ \A i \in DOMAIN routes : routes[i] = Head(routes)
           \/ \E j \in DOMAIN routes' : routes'[j] = routes[i]
  BY <1>1, <1>2, TailHolds
<1>4. ASSUME NEW q \in Approvals(Asked)', ~Settled(q.req)'
      PROVE  q.req \in said'.evicted \/ HasRoute(q)'
  <2>1. q \in Approvals(Asked) /\ ~Settled(q.req)
    BY <1>1, <1>4 DEF Approvals, Asked, Settled, host
  <2>2. q.req \in said.evicted \/ \E i \in DOMAIN routes : routes[i].req = q.req
    BY <2>1 DEF RoutesGood, RoutesLead, HasRoute, RouteOf
  <2>3. CASE q.req \in said.evicted
    BY <1>1, <2>3
  <2>4. CASE \E i \in DOMAIN routes : routes[i].req = q.req
    <3>1. PICK j \in DOMAIN routes' : routes'[j].req = q.req
      BY <1>1, <1>3, <2>1, <2>4
    <3>2. RouteOf(q)' # {}
      BY <3>1 DEF RouteOf
    <3> QED BY <3>2 DEF HasRoute
  <2> QED BY <2>2, <2>3, <2>4
<1>5. Trusting'
  BY <1>1 DEF RoutesGood, Trusting, Approvals, Asked
<1>6. RefusedGone'
  BY <1>1 DEF RoutesGood, RefusedGone, Settled, host
<1>7. RoutesLead'
  BY <1>4 DEF RoutesLead
<1> QED BY <1>3, <1>5, <1>6, <1>7 DEF RoutesGood

\* Only prompts of another kind grow old.
LEMMA MarkerExpiresKeepsRoutes ==
  ASSUME AnswerInv, NEW k \in Capsule, MarkerExpires(k)
  PROVE  RoutesGood'
<1> USE DEF AnswerInv
<1> DEFINE Old(p) == IF p.kind = "grant" /\ p.req = marker[k].req
                       THEN [p EXCEPT !.live = FALSE] ELSE p
<1>1. /\ prompts' = {Old(p) : p \in prompts}
      /\ UNCHANGED <<trusted, ingress, decision, routes, broker, host, mail, said>>
  BY DEF MarkerExpires
<1>2. ASSUME NEW p \in prompts, Old(p).kind = "approval"
      PROVE  Old(p) = p
  <2>1. CASE p.kind = "grant"
    <3>1. p \in [kind : {"grant"}, req : Request, capsule : Capsule, live : BOOLEAN]
      BY <2>1 DEF ConsentInv, TypesGood, Prompt
    <3>2. Old(p).kind = "grant"
      BY <3>1
    <3> QED BY <1>2, <3>2
  <2>2. CASE p.kind # "grant"
    BY <2>2
  <2> QED BY <2>1, <2>2
<1> HIDE DEF Old
<1>3. Approvals(Asked)' \subseteq Approvals(Asked)
  BY <1>1, <1>2 DEF Approvals, Asked
<1>4. RefusedGone'
  BY <1>1 DEF RoutesGood, RefusedGone, Settled, host
<1> QED BY <1>1, <1>3, <1>4, RoutesKeep DEF host, Settled, RoutesGood, Trusting

LEMMA NextKeepsRoutes ==
  ASSUME AnswerInv, [Next]_vars
  PROVE  AnswerInv'
<1>1. ConsentInv'
  BY NextKeeps DEF AnswerInv
<1>2. ASSUME NEW k \in Capsule, ToolCall(k) \/ MarkerExpires(k)
      PROVE  RoutesGood'
  BY <1>2, ToolCallKeepsRoutes, MarkerExpiresKeepsRoutes
<1>3. ASSUME NEW n \in Call, Delivered(n) \/ ToolAsks(n) \/ ToolEnds(n)
      PROVE  RoutesGood'
  BY <1>3, DeliveredKeepsRoutes, ToolAsksKeepsRoutes, ToolEndsKeepsRoutes
<1>4. ASSUME NEW r \in Request, WaiterExpires(r) \/ ApprovalRequired(r) \/ GrantRequired(r)
      PROVE  RoutesGood'
  BY <1>4, WaiterExpiresKeepsRoutes, ApprovalRequiredKeepsRoutes, GrantRequiredKeepsRoutes
<1>5. ASSUME NEW p \in prompts, NEW yes \in BOOLEAN, Answer(p, yes)
      PROVE  RoutesGood'
  BY <1>5, AnswerKeepsRoutes
<1>6. ASSUME NEW m \in mail, IngressRespond(m) \/ GrantRespond(m) \/ ApprovalRespond(m)
      PROVE  RoutesGood'
  BY <1>6, IngressRespondKeepsRoutes, GrantRespondKeepsRoutes, ApprovalRespondKeepsRoutes
<1>7. CASE DispatchEnds \/ RouteExpires
  BY <1>1, <1>7, DispatchEndsKeepsRoutes, RouteExpiresKeepsRoutes DEF AnswerInv
<1>8. CASE UNCHANGED vars
  <2>1. UNCHANGED <<routes, tool, waiter, said, mail, prompts, trusted, broker>>
    BY <1>8 DEF vars, kv, host
  <2>2. RoutesGood'
    BY <2>1, IdleKeeps DEF AnswerInv, RoutesGood, Trusting
  <2> QED BY <1>1, <2>2 DEF AnswerInv
<1> QED BY <1>1, <1>2, <1>3, <1>4, <1>5, <1>6, <1>7, <1>8 DEF Next, AnswerInv

-----------------------------------------------------------------------------
(* What a parked tool hears.                                               *)

\* The human's answer to the prompt about request r is one that is read now.
Heard(r, yes) == \E m \in mail \ mail' :
                   m.prompt.kind = "approval" /\ m.prompt.req = r /\ m.yes = yes

\* Nobody but the one who answers a tool touches it while it is parked.
LEMMA ParkedIsLeft ==
  ASSUME AnswerInv, NEW r \in Request, Asks(r),
         [Next]_vars, ~\E m \in mail : ApprovalRespond(m)
  PROVE  /\ tool'[waiter[r].call] # None
         /\ tool'[waiter[r].call].state \notin {"approved", "denied"}
<1> USE DEF AnswerInv
<1>1. PICK c \in Call : c = waiter[r].call /\ tool[c] # None /\ tool[c].state = "parked"
  BY DEF ConsentInv, ToolsGood, TypesGood, Asks, Settled, Waiter
<1>2. tool \in [Call -> Tool \cup {None}]
  BY DEF ConsentInv, TypesGood
<1> SUFFICES tool'[c] = tool[c]
             \/ (tool'[c] # None /\ tool'[c].state \notin {"approved", "denied"})
  BY <1>1
<1>3. ASSUME NEW k \in Capsule, ToolCall(k)
      PROVE  tool'[c] = tool[c]
  <2>1. CASE tool' = tool
    BY <2>1
  <2>2. CASE \E n \in Call :
               tool[n] = None /\ tool' = [tool EXCEPT ![n] = [capsule |-> k, state |-> "sent"]]
    BY <1>1, <1>2, <2>2
  <2> QED BY <1>3, <2>1, <2>2 DEF ToolCall, FreeCall
<1>4. ASSUME NEW n \in Call, Delivered(n) \/ ToolAsks(n) \/ ToolEnds(n)
      PROVE  tool'[c] = tool[c]
  <2>1. n # c
    BY <1>1, <1>4 DEF Delivered, ToolAsks, ToolEnds, AtWork
  <2>2. \/ tool' = [tool EXCEPT ![n].state = "running"]
        \/ tool' = [tool EXCEPT ![n] = None]
        \/ tool' = [tool EXCEPT ![n].state = "parked"]
    BY <1>4 DEF Delivered, ToolAsks, ToolEnds
  <2> QED BY <1>2, <2>1, <2>2
<1>5. ASSUME NEW q \in Request, WaiterExpires(q)
      PROVE  tool'[c] = tool[c]
             \/ (tool'[c] # None /\ tool'[c].state \notin {"approved", "denied"})
  <2>1. CASE waiter[q].grant
    BY <1>5, <2>1 DEF WaiterExpires
  <2>2. CASE ~waiter[q].grant
    <3>1. Asks(q) /\ tool' = [tool EXCEPT ![waiter[q].call].state = "running"]
      BY <1>5, <2>2 DEF WaiterExpires, Asks
    <3>2. CASE waiter[q].call = c
      <4>1. PICK k \in Capsule : k = tool[c].capsule /\ tool[c] \in Tool
        BY <1>1, <1>2 DEF Tool
      <4>2. tool'[c] = [tool[c] EXCEPT !.state = "running"]
        BY <1>2, <3>1, <3>2
      <4>3. [tool[c] EXCEPT !.state = "running"] = [capsule |-> k, state |-> "running"]
        BY <4>1 DEF Tool
      <4>4. [capsule |-> k, state |-> "running"] # None
        BY NoneIsApart DEF AtWork
      <4> QED BY <4>2, <4>3, <4>4
    <3>3. CASE waiter[q].call # c
      BY <1>2, <3>1, <3>3
    <3> QED BY <3>2, <3>3
  <2> QED BY <2>1, <2>2
<1>6. ASSUME NEW q \in Request, ApprovalRequired(q) \/ GrantRequired(q)
      PROVE  tool' = tool
  <2>1. CASE UNCHANGED host
    BY <2>1 DEF host
  <2>2. CASE Decide(q, TRUE) /\ waiter[q].grant
    BY <2>2, DecideDecides DEF ConsentInv
  <2> QED BY <1>6, <2>1, <2>2 DEF ApprovalRequired, GrantRequired
<1>7. ASSUME NEW p \in prompts, NEW yes \in BOOLEAN, Answer(p, yes)
      PROVE  tool' = tool
  BY <1>7 DEF Answer, host
<1>8. ASSUME NEW m \in mail, IngressRespond(m)
      PROVE  tool' = tool
  BY <1>8 DEF IngressRespond, host
<1>9. ASSUME NEW m \in mail, GrantRespond(m)
      PROVE  tool' = tool
  <2>1. CASE UNCHANGED host
    BY <2>1 DEF host
  <2>2. UNCHANGED host \/ Decide(m.prompt.req, trusted /\ m.yes)
    BY <1>9 DEF GrantRespond
  <2>3. CASE Decide(m.prompt.req, trusted /\ m.yes)
    <3>1. PICK yes \in BOOLEAN : Decide(m.prompt.req, yes)
      <4>1. (trusted /\ m.yes) \in BOOLEAN
        OBVIOUS
      <4> QED BY <2>3, <4>1
    <3>2. m.prompt \in Grants(Asked) /\ m.prompt.req \in Request
      BY <1>9, PromptKinds, AskedAre DEF ConsentInv, GrantRespond, Grants
    <3>3. Settled(m.prompt.req) \/ waiter[m.prompt.req].grant
      BY <3>2 DEF ConsentInv, PromptsGood
    <3>4. PICK q \in Request : Decide(q, yes) /\ (Settled(q) \/ waiter[q].grant)
      BY <3>1, <3>2, <3>3
    <3>5. TypesGood
      BY DEF ConsentInv
    <3> QED BY <3>4, <3>5, DecideDecides
  <2> QED BY <2>1, <2>2, <2>3
<1>10. CASE DispatchEnds \/ RouteExpires \/ (\E k \in Capsule : MarkerExpires(k))
            \/ UNCHANGED vars
  BY <1>10 DEF DispatchEnds, RouteExpires, MarkerExpires, host, vars
<1> QED BY <1>3, <1>4, <1>5, <1>6, <1>7, <1>8, <1>9, <1>10 DEF Next

\* The one who answers passes on what the human said, or no without a route.
LEMMA ParkedIsTold ==
  ASSUME AnswerInv, NEW r \in Request, Asks(r), NEW m \in mail, ApprovalRespond(m)
  PROVE  /\ tool'[waiter[r].call] # None
         /\ tool'[waiter[r].call].state = "approved" => Heard(r, TRUE)
         /\ tool'[waiter[r].call].state = "denied" => Heard(r, FALSE) \/ r \in said.evicted
<1> USE DEF AnswerInv
<1>1. PICK c \in Call : c = waiter[r].call /\ tool[c] # None /\ tool[c].state = "parked"
  BY DEF ConsentInv, ToolsGood, TypesGood, Asks, Settled, Waiter
<1>2. PICK p : p = m.prompt /\ p.kind = "approval"
  BY DEF ApprovalRespond
<1>3. p \in Approvals(Asked) /\ p.req \in Request /\ m.yes \in BOOLEAN
  <2>1. p \in Approvals(Asked)
    BY <1>2, AskedAre DEF Approvals
  <2> QED BY <2>1, PromptKinds, AskedAre DEF ConsentInv, TypesGood, Mail
<1>4. trusted
  BY <1>3 DEF RoutesGood, Trusting
<1>5. PICK yes \in BOOLEAN :
        Decide(p.req, yes) /\ (yes = m.yes \/ (yes = FALSE /\ ~HasRoute(p)))
  <2>1. CASE HasRoute(p) /\ Decide(p.req, trusted /\ m.yes)
    BY <1>3, <1>4, <2>1
  <2>2. CASE ~HasRoute(p) /\ Decide(p.req, FALSE)
    BY <2>2
  <2> QED BY <1>2, <2>1, <2>2 DEF ApprovalRespond
<1>6. m \in mail \ mail'
  BY DEF ApprovalRespond
<1>7. CASE tool'[c] = tool[c]
  BY <1>1, <1>7
<1>8. CASE Asks(p.req) /\ c = waiter[p.req].call
  <2>1. p.req = r
    BY <1>1, <1>3, <1>8 DEF ConsentInv, ToolsGood
  <2>2. tool'[c] # None /\ tool'[c].state = IF yes THEN "approved" ELSE "denied"
    BY <1>1, <1>3, <1>5, <2>1, ToldAlone
  <2>3. CASE yes = m.yes
    <3>1. Heard(r, yes)
      BY <1>2, <1>6, <2>1, <2>3 DEF Heard
    <3> QED BY <1>1, <2>2, <3>1
  <2>4. CASE yes = FALSE /\ ~HasRoute(p)
    <3>1. r \in said.evicted
      BY <1>3, <1>8, <2>1, <2>4 DEF RoutesGood, RoutesLead, Asks
    <3> QED BY <1>1, <2>2, <2>4, <3>1
  <2> QED BY <1>5, <2>3, <2>4
<1> QED BY <1>1, <1>3, <1>5, <1>7, <1>8, ToldAlone

\* A tool hears what the human said to the prompt about its own request, or no
\* because the full table of routes forgot it (take_pending_result_route,
\* handle_mcp_approval): whatever answers are lost or late, whoever stopped
\* waiting, and with numbers of requests and calls that are used again.
THEOREM AnswersAreKept ==
  Spec => AnswersKept
<1> DEFINE Kept(r) ==
      ~Settled(r) /\ tool[waiter[r].call] # None /\ tool[waiter[r].call].state = "parked" =>
        /\ tool'[waiter[r].call] # None
        /\ tool'[waiter[r].call].state = "approved" => Heard(r, TRUE)
        /\ tool'[waiter[r].call].state = "denied" => Heard(r, FALSE) \/ r \in said.evicted
<1>1. Init => AnswerInv
  <2>1. ASSUME Init
        PROVE  RoutesGood
    <3>1. routes \in Seq(Route)
      BY <2>1 DEF Init
    <3> QED BY <2>1, <3>1 DEF Init, RoutesGood, Trusting, RefusedGone, RoutesLead, Settled,
                              Asked, Approvals
  <2> QED BY <2>1, InitEstablishes DEF AnswerInv
<1>2. AnswerInv /\ [Next]_vars => AnswerInv'
  BY NextKeepsRoutes
<1>3. ASSUME AnswerInv, [Next]_vars, NEW r \in Request
      PROVE  Kept(r)
  <2> SUFFICES ASSUME ~Settled(r), tool[waiter[r].call] # None,
                      tool[waiter[r].call].state = "parked"
               PROVE  /\ tool'[waiter[r].call] # None
                      /\ tool'[waiter[r].call].state = "approved" => Heard(r, TRUE)
                      /\ tool'[waiter[r].call].state = "denied" =>
                           Heard(r, FALSE) \/ r \in said.evicted
    OBVIOUS
  <2>1. Asks(r)
    BY <1>3 DEF AnswerInv, RoutesGood, RefusedGone, Asks
  <2> QED BY <1>3, <2>1, ParkedIsLeft, ParkedIsTold
<1>4. AnswerInv /\ [Next]_vars => [\A r \in Request :
       LET n == waiter[r].call
           heard(yes) == \E m \in mail \ mail' :
                           m.prompt.kind = "approval" /\ m.prompt.req = r /\ m.yes = yes
       IN  ~Settled(r) /\ tool[n] # None /\ tool[n].state = "parked" =>
             /\ tool'[n] # None
             /\ tool'[n].state = "approved" => heard(TRUE)
             /\ tool'[n].state = "denied" => heard(FALSE) \/ r \in said.evicted]_vars
  BY <1>3 DEF Heard
<1> QED BY <1>1, <1>2, <1>4, PTL DEF Spec, AnswersKept
=============================================================================
