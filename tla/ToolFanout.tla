----------------------------- MODULE ToolFanout -----------------------------
(***************************************************************************)
(* Fingerprints of the MCP servers (mcp.rs, commit.rs fingerprint_tools):  *)
(* a commit asks every configured server for its tools/list, a few at a    *)
(* time, each with a deadline, while it holds the commit lock; then it     *)
(* pairs the answers with the configured names.  This module has one       *)
(* fan-out; ClientCalls says when there is one.                            *)
(***************************************************************************)
EXTENDS Integers, Sequences, FiniteSets, Functions, FiniteSetsExt

CONSTANTS
  Server,                   (* The names servers are configured under.     *)
  Offers,                   (* Offers[s]: what a tools/list of s may say.  *)
  KeyOrder,                 (* Ways its JSON may be laid out.              *)
  Words,                    (* What the text of a failure may hold that    *)
                            (* wire_error looks for; "plain" is nothing.   *)
  FINGERPRINT_CONCURRENCY,
  Timeout,                  (* Of one request, in ticks.                   *)
  Pending                   (* The result of a request not yet answered.   *)

ASSUME FanoutAssumption ==
  /\ IsFiniteSet(Server)
  /\ FINGERPRINT_CONCURRENCY \in Nat \ {0} /\ Timeout \in Nat \ {0} /\ "plain" \in Words

VARIABLES
  servers,      (* state.mcp_servers, the names.                           *)
  fan,          (* fingerprint_all: which requests are unanswered, the     *)
                (* results so far, how long each request has run and how   *)
                (* long it all has.                                        *)
  served        (* History: what the i-th request was last answered with.  *)

fanVars == <<servers, fan, served>>

-----------------------------------------------------------------------------
(***************************************************************************)
(* Startup: parse_mcp_spec, validate_mcp_url, and the check for duplicate  *)
(* names in DaemonState::open.                                             *)
(***************************************************************************)
UrlKind == {"https", "http_loopback", "http_remote", "other"}

UrlAllowed(url) == url \in {"https", "http_loopback"}

NamesDistinct(cfg) == IsInjective([i \in DOMAIN cfg |-> cfg[i].name])

Startable(cfg) ==
  /\ \A i \in DOMAIN cfg : UrlAllowed(cfg[i].url)
  /\ NamesDistinct(cfg)

NamesOf(cfg) == [i \in DOMAIN cfg |-> cfg[i].name]

-----------------------------------------------------------------------------
(***************************************************************************)
(* One server's answer.  A fault is the first check that fails, in the     *)
(* order of fingerprint_one_with_limits; the text of three of them quotes  *)
(* the server.                                                             *)
(***************************************************************************)
Fault == {"unreachable", "redirect", "too_large", "http_error", "not_json",
          "rpc_error", "neither", "too_deep", "manifest_too_large"}
Quoting == {"redirect", "http_error", "rpc_error"}

Answers(s) ==
  [fault : {"none"}, tools : Offers[s], order : KeyOrder]
    \cup [fault : Quoting, words : Words] \cup [fault : Fault \ Quoting]

(* canonicalize: sorted keys.                                              *)
Canonical(a) == a.tools

Failed(words) == [ok |-> FALSE, words |-> words]
Manifest(m) == [ok |-> TRUE, manifest |-> m]

Fingerprint(a) ==
  IF a.fault = "none" THEN Manifest(Canonical(a))
  ELSE Failed(IF a.fault \in Quoting THEN a.words ELSE "plain")

-----------------------------------------------------------------------------
(***************************************************************************)
(* stream::iter(...).buffered(n).collect(): a request is started when      *)
(* fewer than n before it are unanswered or waiting for their turn in the  *)
(* output, so an early slow server holds back the later ones.              *)
(***************************************************************************)
Index == 1..Len(servers)

NoFan == [open |-> {}, result |-> <<>>, age |-> <<>>, clock |-> 0]

Asked == [open |-> Index, result |-> [i \in Index |-> Pending],
          age |-> [i \in Index |-> 0], clock |-> 0]

Head1 == Cardinality({i \in Index : \A j \in 1..i : j \notin fan.open})

(* Variant: the loop before the change the comment of fingerprint_all      *)
(* tells of.                                                               *)
BufferedOne(i) == i <= Head1 + 1

Buffered(i) == i <= Head1 + FINGERPRINT_CONCURRENCY

InFlight == {i \in fan.open : Buffered(i)}

(* Variant: buffer_unordered, the i-th place is for the i-th to answer.    *)
PlaceUnordered(i) == Len(servers) - Cardinality(fan.open) + 1

Place(i) == i

Settle(i, r) ==
  fan' = [fan EXCEPT !.open = @ \ {i}, !.result[Place(i)] = r]

Answer(i, a) ==
  /\ i \in InFlight
  /\ Settle(i, Fingerprint(a))
  /\ served' = [served EXCEPT ![i] =
                  IF a.fault = "none" THEN a.tools ELSE Pending]
  /\ UNCHANGED servers

(* Variant: no deadline.                                                   *)
OverdueNever(i) == FALSE

Overdue(i) == fan.age[i] >= Timeout

TimeOut(i) ==
  /\ i \in InFlight /\ Overdue(i)
  /\ Settle(i, Failed("plain"))
  /\ served' = [served EXCEPT ![i] = Pending]
  /\ UNCHANGED servers

(* A deadline that has come is seen before more time passes.               *)
FanMayTick == \A i \in InFlight : ~Overdue(i)

(* ceil(N / FINGERPRINT_CONCURRENCY) deadlines.                            *)
LongestFan ==
  Timeout * ((Len(servers) + FINGERPRINT_CONCURRENCY - 1)
               \div FINGERPRINT_CONCURRENCY)

(* The clock is only looked at up to the longest fan-out.                  *)
FanTicked ==
  IF InFlight = {} THEN fan
  ELSE [fan EXCEPT !.clock = IF @ > LongestFan THEN @ ELSE @ + 1,
                   !.age = [i \in Index |-> IF i \in InFlight /\ fan.age[i] < Timeout
                                            THEN fan.age[i] + 1 ELSE fan.age[i]]]

NothingServed == [i \in 1..Cardinality(Server) |-> Pending]

FanCleared == fan' = NoFan /\ served' = NothingServed

(* All that is left of a fan-out are its results.                          *)
FanCollected == [fan EXCEPT !.age = [i \in Index |-> 0], !.clock = 0]

FanDone == fan.open = {} /\ fan # NoFan

-----------------------------------------------------------------------------
(***************************************************************************)
(* fingerprint_tools: results are paired with the configured names; the    *)
(* first failure in that order fails the commit.                           *)
(***************************************************************************)
FanFailed == \E i \in Index : ~fan.result[i].ok

FailureWords == fan.result[Min({i \in Index : ~fan.result[i].ok})].words

ToolsMap ==
  [s \in Range(servers) |->
     fan.result[CHOOSE i \in Index : servers[i] = s].manifest]

Content == UNION {Offers[s] : s \in Server}

FanTypeOK ==
  /\ Range(servers) \subseteq Server
  /\ fan = NoFan \/
       /\ fan.open \subseteq Index
       /\ fan.result \in [Index -> {Pending} \cup {Failed(w) : w \in Words}
                                   \cup {Manifest(m) : m \in Content}]
       /\ fan.age \in [Index -> 0..Timeout] /\ fan.clock \in Nat
  /\ served \in [1..Cardinality(Server) -> Content \cup {Pending}]

(* With a slow server each batch waits its whole deadline, and no longer:  *)
(* fingerprint_all holds the commit lock for no more than                  *)
(* ceil(N / FINGERPRINT_CONCURRENCY) deadlines, although a server that is  *)
(* slow to answer holds back those behind it (comment of fingerprint_all). *)
FanoutBound == fan.clock <= LongestFan
=============================================================================
