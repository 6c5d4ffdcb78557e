--------------------------- MODULE BrokerConsent ---------------------------
(***************************************************************************)
(* Consent in the MCP broker, crates/aos-mcp-broker: a tool call is sent   *)
(* out, and what comes back first is its result, a capability approval its *)
(* tool waits for, or the kernel's refusal because the capsule was not     *)
(* granted.  A prompt goes to the human, whose answer comes as a request   *)
(* of its own.  The broker handles one request at a time (execute.rs,      *)
(* approval.rs, approval/result.rs, broker.rs, grant_decision.rs).         *)
(*                                                                         *)
(* The kernel, the tools, the shim and the human are external.  Requests   *)
(* and calls are numbers, used again once nothing refers to them; one      *)
(* principal and one ingress are modelled.                                 *)
(***************************************************************************)
EXTENDS Naturals, Sequences, FiniteSets, SequencesExt

CONSTANTS
  Call,       \* bound: calls that may be in progress at once
  Request,    \* bound: approval and grant requests there may be at once
  Capsule,
  None,
  MaxRoutes   \* MAX_PENDING_RESULT_ROUTES

ASSUME ConstantsAssumption ==
  /\ IsFiniteSet(Call) /\ IsFiniteSet(Request) /\ IsFiniteSet(Capsule)
  /\ Call \subseteq Nat /\ Request \subseteq Nat
  /\ MaxRoutes \in Nat \ {0}

\* A tool that runs, and what it was told last.
AtWork == {"running", "approved", "denied"}

\* None is neither a marker, nor somebody who waits, nor a tool.
ASSUME NoneIsApart ==
  /\ \A r \in Request, yes \in BOOLEAN : [req |-> r, fresh |-> yes] # None
  /\ \A k \in Capsule :
       /\ \A n \in Call, yes \in BOOLEAN : [capsule |-> k, call |-> n, grant |-> yes] # None
       /\ \A s \in {"sent", "parked"} \cup AtWork : [capsule |-> k, state |-> s] # None

VARIABLES
  trusted,   \* mcp.ingress.trust.<source>
  ingress,   \* mcp.ingress.pending.<source>
  decision,  \* capsules with mcp.grant.decision.<capsule> = approve
  marker,    \* mcp.grant.pending.<capsule>: None, or the request asked about
  routes,    \* mcp.approval.pending_result_routes, oldest first; one that is
             \* too old is none (is_fresh), and is left out
  broker,    \* None, or the call whose result is being waited for
  tool,      \* external: what became of each call that was sent out
  waiter,    \* external: who waits for the answer to a request: a refused call or a tool
  granted,   \* external: capsules the kernel lets the principal use
  prompts,   \* external: prompts in front of the human
  mail,      \* external: answers on their way to the broker
  said       \* history: the capsules the human allowed, the routes the full table forgot

kv   == <<trusted, ingress, decision, marker, routes>>
host == <<tool, waiter, granted>>
vars == <<kv, broker, host, prompts, mail, said>>

Init ==
  /\ trusted = FALSE /\ ingress = FALSE
  /\ decision = {} /\ marker = [k \in Capsule |-> None] /\ routes = <<>>
  /\ broker = None
  /\ tool = [n \in Call |-> None]
  /\ waiter = [r \in Request |-> None]
  /\ granted \in SUBSET Capsule
  /\ prompts = {} /\ mail = {}
  /\ said = [capsules |-> granted, evicted |-> {}]

-----------------------------------------------------------------------------
(* Identifiers.                                                            *)

Settled(r) == waiter[r] = None
InBroker(n) == broker # None /\ broker.call = n
Prompting(kind) == {p \in prompts \cup {m.prompt : m \in mail} : p.kind = kind}

FreeCall(n) ==
  /\ tool[n] = None /\ ~InBroker(n)
  /\ \A r \in Request : ~Settled(r) => waiter[r].call # n
  /\ \A p \in Prompting("approval") : p.call # n

FreeRequest(r) ==
  /\ Settled(r)
  /\ broker # None => r \notin Range(broker.signals)
  /\ \A p \in Prompting("approval") \cup Prompting("grant") : p.req # r
  /\ \A k \in Capsule : marker[k] # None /\ marker[k].fresh => marker[k].req # r
  /\ \A i \in DOMAIN routes : routes[i].req # r

-----------------------------------------------------------------------------
(* The host, the tools and the human.                                      *)

\* Someone waits for the answer to a new request, and says so on the topic
\* that the broker watches while it dispatches.
Raise(n, grant) ==
  LET free == {r \in Request : FreeRequest(r)}
  IN  /\ free # {}
      /\ LET r == CHOOSE x \in free : \A y \in free : x <= y
         IN  /\ waiter' = [waiter EXCEPT ![r] =
                           [capsule |-> tool[n].capsule, call |-> n, grant |-> grant]]
             /\ broker' = IF broker # None /\ broker.leg = "dispatch"
                            THEN [broker EXCEPT !.signals = Append(@, r)] ELSE broker

\* The kernel runs a tool of a granted capsule and drops a call of any other.
Delivered(n) ==
  /\ tool[n] # None /\ tool[n].state = "sent"
  /\ \/ /\ tool[n].capsule \in granted
        /\ tool' = [tool EXCEPT ![n].state = "running"]
        /\ UNCHANGED <<waiter, broker>>
     \/ /\ tool[n].capsule \notin granted
        /\ Raise(n, TRUE) /\ tool' = [tool EXCEPT ![n] = None]
  /\ UNCHANGED <<kv, granted, prompts, mail, said>>

\* request_approval: the tool is parked until it is answered.  Its call may have
\* ended before: nothing stops a tool the broker no longer waits for.
ToolAsks(n) ==
  /\ tool[n] # None /\ tool[n].state \in AtWork
  /\ Raise(n, FALSE)
  /\ tool' = [tool EXCEPT ![n].state = "parked"]
  /\ UNCHANGED <<kv, granted, prompts, mail, said>>

\* The tool's result, or the host's notice that the tool failed, reaches the
\* broker if it waits for it.
ToolEnds(n) ==
  /\ tool[n] # None /\ tool[n].state \in AtWork
  /\ tool' = [tool EXCEPT ![n] = None]
  /\ broker' = IF InBroker(n) THEN [broker EXCEPT !.result = TRUE] ELSE broker
  /\ UNCHANGED <<kv, waiter, granted, prompts, mail, said>>

\* What is published on astrid.v1.approval.response.<r>: it reaches the one who
\* waits, if anyone still does.
Decide(r, approve) ==
  LET w == waiter[r]
  IN  IF Settled(r) THEN UNCHANGED host
      ELSE /\ waiter' = [waiter EXCEPT ![r] = None]
           /\ tool' = IF w.grant THEN tool
                      ELSE [tool EXCEPT ![w.call].state = IF approve THEN "approved" ELSE "denied"]
           /\ granted' = IF w.grant /\ approve THEN granted \cup {w.capsule} ELSE granted

\* The host gives up waiting, after 60 s; the broker looks at a signal it was
\* sent much earlier than that.
WaiterExpires(r) ==
  /\ ~Settled(r)
  /\ broker # None => r \notin Range(broker.signals)
  /\ waiter' = [waiter EXCEPT ![r] = None]
  /\ tool' = IF waiter[r].grant THEN tool ELSE [tool EXCEPT ![waiter[r].call].state = "running"]
  /\ UNCHANGED <<kv, broker, granted, prompts, mail, said>>

\* The human, or for want of one the shim, answers a prompt; the answer may be
\* lost.  One answer at a time is on its way.
Answer(p, yes) ==
  /\ p \in prompts /\ mail = {}
  /\ prompts' = prompts \ {p}
  /\ mail' \in {mail, mail \cup {[prompt |-> p, yes |-> yes]}}
  /\ said' = IF yes /\ p.kind = "grant" /\ p.live
               THEN [said EXCEPT !.capsules = @ \cup {p.capsule}] ELSE said
  /\ UNCHANGED <<kv, broker, host>>

-----------------------------------------------------------------------------
(* Dispatch.                                                               *)

\* handle_mcp_call up to the wait for an answer.  A malformed call, one the
\* policy denies and one nobody provides change nothing.
ToolCall(k) ==
  /\ broker = None
  /\ \/ /\ ~trusted /\ ingress' = TRUE
        /\ prompts' = prompts \cup {[kind |-> "ingress"]}
        /\ UNCHANGED <<broker, tool>>
     \/ /\ trusted
        /\ \E n \in Call :
             /\ FreeCall(n) /\ \A m \in Call : FreeCall(m) => n <= m
             /\ tool' = [tool EXCEPT ![n] = [capsule |-> k, state |-> "sent"]]
             /\ broker' = [call |-> n, leg |-> "dispatch", signals |-> <<>>, result |-> FALSE]
        /\ UNCHANGED <<ingress, prompts>>
  /\ UNCHANGED <<trusted, decision, marker, routes, waiter, granted, mail, said>>

\* The result comes first, or nothing comes in time; on the second leg as well.
DispatchEnds ==
  /\ broker # None
  /\ broker.result \/ broker.signals = <<>>
  /\ broker' = None
  /\ UNCHANGED <<kv, host, prompts, mail, said>>

\* poll_signal: the first refusal, or else the first approval.
Signal(r) ==
  /\ broker # None /\ broker.leg = "dispatch"
  /\ \E i \in DOMAIN broker.signals :
       LET refused(j) == waiter[broker.signals[j]].grant
       IN  /\ r = broker.signals[i]
           /\ \/ refused(i) /\ \A j \in 1 .. i - 1 : ~refused(j)
              \/ i = 1 /\ \A j \in DOMAIN broker.signals : ~refused(j)

\* remember_pending_result_route.
TableFull  == Len(routes) >= MaxRoutes
RoutesKept == IF TableFull THEN Tail(routes) ELSE routes

ApprovalRequired(r) ==
  /\ Signal(r) /\ ~waiter[r].grant
  /\ routes' = Append(RoutesKept, [req |-> r, call |-> broker.call])
  /\ said' = [said EXCEPT !.evicted = (@ \ {r}) \cup IF TableFull THEN {Head(routes).req} ELSE {}]
  /\ prompts' = prompts \cup {[kind |-> "approval", req |-> r, call |-> broker.call]}
  /\ broker' = None
  /\ UNCHANGED <<trusted, ingress, decision, marker, host, mail>>

\* grant_pending: a marker that is too old is none.
PendingWhileWaited(k) == marker[k] # None /\ ~Settled(marker[k].req)
PendingForEver(k) == marker[k] # None
Pending(k) == marker[k] # None /\ marker[k].fresh

\* A refusal of a capsule the human approved before is answered at once; one
\* that is being asked about is not asked about again; any other is.
GrantRequired(r) ==
  LET k == waiter[r].capsule
  IN  /\ Signal(r) /\ waiter[r].grant
      /\ broker' = None
      /\ \/ /\ k \in decision
            /\ Decide(r, TRUE)
            /\ UNCHANGED <<marker, prompts>>
         \/ /\ k \notin decision /\ Pending(k)
            /\ UNCHANGED <<marker, prompts, host>>
         \/ /\ k \notin decision /\ ~Pending(k)
            /\ marker' = [marker EXCEPT ![k] = [req |-> r, fresh |-> TRUE]]
            /\ prompts' = prompts \cup
                 {[kind |-> "grant", req |-> r, capsule |-> k, live |-> TRUE]}
            /\ UNCHANGED host
      /\ UNCHANGED <<trusted, ingress, decision, routes, mail, said>>

-----------------------------------------------------------------------------
(* Answers.                                                                *)

\* handle_mcp_ingress_respond.
IngressRespond(m) ==
  /\ broker = None /\ m \in mail /\ m.prompt.kind = "ingress"
  /\ mail' = mail \ {m}
  /\ ingress' = FALSE
  /\ trusted' = (trusted \/ (m.yes /\ ingress))
  /\ UNCHANGED <<decision, marker, routes, broker, host, prompts, said>>

\* take_grant_pending: the answer is to the prompt the marker stands for, and
\* it came in time.
PairedByCapsule(p) == marker[p.capsule] # None
Paired(p) ==
  /\ Pending(p.capsule)
  /\ marker[p.capsule].req = p.req

\* handle_mcp_grant_respond.
GrantRespond(m) ==
  LET p == m.prompt
  IN  /\ broker = None /\ m \in mail /\ p.kind = "grant"
      /\ mail' = mail \ {m}
      /\ \/ /\ Paired(p)
            /\ marker' = [marker EXCEPT ![p.capsule] = None]
            /\ decision' = IF trusted /\ m.yes THEN decision \cup {p.capsule} ELSE decision
            /\ Decide(p.req, trusted /\ m.yes)
         \/ /\ ~Paired(p)
            /\ marker' = IF Pending(p.capsule) THEN marker ELSE [marker EXCEPT ![p.capsule] = None]
            /\ UNCHANGED <<decision, host>>
      /\ UNCHANGED <<trusted, ingress, routes, broker, prompts, said>>

\* take_pending_result_route.
RouteOf(p)  == {i \in DOMAIN routes : routes[i].req = p.req}
HasRoute(p) == RouteOf(p) # {}
RoutesExpired(p) == <<>>
RoutesAfter(p) == IF HasRoute(p) THEN RemoveAt(routes, CHOOSE i \in RouteOf(p) : TRUE) ELSE routes

\* handle_mcp_approval and resolve_with_decision: the answer is passed on, and
\* the tool's result is waited for; without a route the tool is denied.
ApprovalRespond(m) ==
  LET p == m.prompt
  IN  /\ broker = None /\ m \in mail /\ p.kind = "approval"
      /\ mail' = mail \ {m}
      /\ routes' = RoutesAfter(p)
      /\ \/ /\ HasRoute(p)
            /\ Decide(p.req, trusted /\ m.yes)
            /\ broker' = [call |-> p.call, leg |-> "resume", signals |-> <<>>, result |-> FALSE]
         \/ /\ ~HasRoute(p)
            /\ Decide(p.req, FALSE)
            /\ UNCHANGED broker
      /\ said' = [said EXCEPT !.evicted = @ \ {p.req}]
      /\ UNCHANGED <<trusted, ingress, decision, marker, prompts>>

\* 120 s have passed, twice what the host waits.
MarkerExpires(k) ==
  /\ Pending(k) /\ Settled(marker[k].req)
  /\ marker' = [marker EXCEPT ![k].fresh = FALSE]
  /\ prompts' = {IF p.kind = "grant" /\ p.req = marker[k].req THEN [p EXCEPT !.live = FALSE] ELSE p
                   : p \in prompts}
  /\ UNCHANGED <<trusted, ingress, decision, routes, broker, host, mail, said>>

RouteExpires ==
  /\ routes # <<>> /\ Settled(Head(routes).req)
  /\ routes' = Tail(routes)
  /\ UNCHANGED <<trusted, ingress, decision, marker, broker, host, prompts, mail, said>>

-----------------------------------------------------------------------------

Surface == \E r \in Request : ApprovalRequired(r) \/ GrantRequired(r)
Respond == \E m \in mail : IngressRespond(m) \/ GrantRespond(m) \/ ApprovalRespond(m)

Next ==
  \/ \E k \in Capsule : ToolCall(k) \/ MarkerExpires(k)
  \/ \E n \in Call : Delivered(n) \/ ToolAsks(n) \/ ToolEnds(n)
  \/ \E r \in Request : WaiterExpires(r) \/ ApprovalRequired(r) \/ GrantRequired(r)
  \/ \E p \in prompts, yes \in BOOLEAN : Answer(p, yes)
  \/ \E m \in mail : IngressRespond(m) \/ GrantRespond(m) \/ ApprovalRespond(m)
  \/ DispatchEnds \/ RouteExpires

Spec == Init /\ [][Next]_vars

\* The broker and the kernel go on, and time passes; a prompt nobody answers is
\* answered by the shim.  The agent keeps calling, and tools come to an end.
FairSpec ==
  /\ Spec
  /\ WF_vars(DispatchEnds \/ Surface) /\ SF_vars(Surface) /\ SF_vars(Respond)
  /\ WF_vars(RouteExpires)
  /\ WF_vars(\E n \in Call : Delivered(n))
  /\ SF_vars(\E n \in Call : InBroker(n) /\ Delivered(n))
  /\ SF_vars(\E n \in Call : ToolEnds(n))
  /\ \A r \in Request : SF_vars(WaiterExpires(r))
  /\ \A k \in Capsule : SF_vars(ToolCall(k)) /\ SF_vars(MarkerExpires(k))
  /\ WF_vars(\E p \in prompts : Answer(p, FALSE))

-----------------------------------------------------------------------------

\* A capsule is used, now or after the next refusal, only if the human said yes
\* to a prompt for it while that prompt still counted (take_grant_pending).
Consent == granted \cup decision \subseteq said.capsules

\* A tool hears what the human said to the prompt about its own request, or no
\* because the full table of routes forgot it (take_pending_result_route).
AnswersKept ==
  [][\A r \in Request :
       LET n == waiter[r].call
           heard(yes) == \E m \in mail \ mail' :
                           m.prompt.kind = "approval" /\ m.prompt.req = r /\ m.yes = yes
       IN  ~Settled(r) /\ tool[n] # None /\ tool[n].state = "parked" =>
             /\ tool'[n] # None
             /\ tool'[n].state = "approved" => heard(TRUE)
             /\ tool'[n].state = "denied" => heard(FALSE) \/ r \in said.evicted]_vars

\* However many calls are refused, the human has one prompt that counts per
\* capsule (grant_pending).
OnePrompt ==
  \A k \in Capsule :
    Cardinality({p \in prompts : p.kind = "grant" /\ p.capsule = k /\ p.live}) <= 1

\* A lost answer, an expired waiter or a forgotten prompt does not lock a capsule
\* up: an agent that keeps calling gets it granted or the human asked again
\* (GRANT_PENDING_TTL_MS, recorded_grant_decision).
NeverWedged ==
  \A k \in Capsule :
    []<>(\/ ~trusted \/ k \in granted
         \/ \E p \in prompts : p.kind = "grant" /\ p.capsule = k /\ p.live)
=============================================================================
