----------------------------- MODULE Lifecycle -----------------------------
(***************************************************************************)
(* The life of a server, server/server.go: AddDevice is called by any      *)
(* thread, before, during and after Serve, which listens, starts the       *)
(* devices' background loops and accepts clients until its ctx is done.    *)
(* What becomes of an accepted connection is in module Hub.                *)
(***************************************************************************)
EXTENDS Naturals, Sequences, FiniteSets, SequencesExt

CONSTANTS
    Device,   \* the devices that are added
    Name,     \* Device -> their names, which need not differ
    Starters, \* the devices that have a background loop
    Dialer,   \* those who dial the server
    Shortest, \* the first pause after a failing Accept: 5 ms
    Longest   \* the longest: 1 s

ASSUME LifecycleAssumption ==
    /\ Starters \subseteq Device
    /\ Shortest \in Nat \ {0} /\ Longest \in Nat /\ Shortest <= Longest

VARIABLES
    order,     \* s.order, the devices added
    rejected,  \* those that AddDevice refused
    serveCtx,  \* s.serveCtx # nil
    ln,        \* the listener: "none", "open" or "closed"
    cancelled, \* ctx.Err() # nil
    serve,     \* where Serve is, or how it returned: "nil" or "error"
    devs,      \* its snapshot of s.order, as far as it is still to be started
    backoff,   \* acceptLoop's backoff
    starts,    \* how often each device's Start was called
    dialing,   \* clients that wait to be accepted
    conns,     \* clients that have been
    failing    \* whether Accept fails for now, for want of descriptors or the like

lifeVars == <<order, rejected, serveCtx, ln, cancelled, serve, devs, backoff, starts, dialing,
          conns, failing>>
devices == <<order, rejected, starts>>
clients == <<dialing, conns>>

LifeInit ==
    /\ order = <<>> /\ rejected = {} /\ serveCtx = FALSE
    /\ ln = "none" /\ cancelled = FALSE
    /\ serve = "listen" /\ devs = <<>> /\ backoff = 0
    /\ starts = [d \in Device |-> 0]
    /\ dialing = {} /\ conns = {} /\ failing \in BOOLEAN

(***************************************************************************)
(* AddDevice                                                               *)
(***************************************************************************)
Started(d) == IF d \in Starters THEN [starts EXCEPT ![d] = @ + 1] ELSE starts

\* Whether AddDevice starts the loop.  Variant: as soon as the server listens.
Serving_Listens == ln # "none"
Serving == serveCtx

\* One section of s.mu, the start of the loop included.
AddDevice(d) ==
    /\ d \notin ToSet(order) \cup rejected
    /\ IF \E e \in ToSet(order) : Name[e] = Name[d]
       THEN rejected' = rejected \cup {d} /\ UNCHANGED <<order, starts>>
       ELSE /\ order' = Append(order, d)
            /\ starts' = IF Serving THEN Started(d) ELSE starts
            /\ UNCHANGED rejected
    /\ UNCHANGED <<serveCtx, ln, cancelled, serve, devs, backoff, clients, failing>>

(***************************************************************************)
(* Serve                                                                   *)
(***************************************************************************)
Listen ==
    /\ serve = "listen"
    /\ \/ serve' = "lock" /\ ln' = "open"
       \/ serve' = "error" /\ UNCHANGED ln
    /\ UNCHANGED <<devices, serveCtx, cancelled, devs, backoff, clients, failing>>

\* One section of s.mu sets serveCtx and takes the snapshot.
Lock ==
    /\ serve = "lock"
    /\ serveCtx' = TRUE
    /\ devs' = order
    /\ serve' = "start"
    /\ UNCHANGED <<devices, ln, cancelled, backoff, clients, failing>>

StartDevices ==
    /\ serve = "start"
    /\ IF devs = <<>> THEN serve' = "accept" /\ UNCHANGED <<starts, devs>>
       ELSE /\ starts' = Started(Head(devs))
            /\ devs' = Tail(devs)
            /\ UNCHANGED serve
    /\ UNCHANGED <<order, rejected, serveCtx, ln, cancelled, backoff, clients, failing>>

\* The goroutine that closes the listener.
CloseListener ==
    /\ cancelled /\ serveCtx /\ ln = "open"
    /\ ln' = "closed"
    /\ UNCHANGED <<devices, serveCtx, cancelled, serve, devs, backoff, clients, failing>>

\* A client is accepted, ...
Accept ==
    /\ serve = "accept" /\ ln = "open" /\ ~failing
    /\ \E c \in dialing : dialing' = dialing \ {c} /\ conns' = conns \cup {c}
    /\ backoff' = 0
    /\ UNCHANGED <<devices, serveCtx, ln, cancelled, serve, devs, failing>>

Doubled == IF backoff = 0 THEN Shortest
           ELSE IF backoff >= Longest THEN backoff
           ELSE IF 2 * backoff > Longest THEN Longest ELSE 2 * backoff

\* Variant: a failure is one whether or not the server is to end.
Over_Ignored == FALSE
Over == cancelled

\* ... or Accept fails, for ever once the listener is closed.
Fails ==
    /\ serve = "accept" /\ (failing \/ ln = "closed")
    /\ IF Over THEN serve' = "nil" /\ UNCHANGED backoff
       ELSE IF ln = "closed" THEN serve' = "error" /\ UNCHANGED backoff
       ELSE serve' = "pause" /\ backoff' = Doubled
    /\ UNCHANGED <<devices, serveCtx, ln, cancelled, devs, clients, failing>>

\* The pause ends, or ctx does.
Resume ==
    /\ serve = "pause"
    /\ \/ serve' = "accept"
       \/ cancelled /\ serve' = "nil"
    /\ UNCHANGED <<devices, serveCtx, ln, cancelled, devs, backoff, clients, failing>>

Cancel ==
    /\ ~cancelled
    /\ cancelled' = TRUE
    /\ UNCHANGED <<devices, serveCtx, ln, serve, devs, backoff, clients, failing>>

(***************************************************************************)
(* The network                                                             *)
(***************************************************************************)
Dial(c) ==
    /\ ln = "open" /\ c \notin dialing \cup conns
    /\ dialing' = dialing \cup {c}
    /\ UNCHANGED <<devices, serveCtx, ln, cancelled, serve, devs, backoff, conns, failing>>

Hiccup ==
    /\ failing' = ~failing
    /\ UNCHANGED <<devices, serveCtx, ln, cancelled, serve, devs, backoff, clients>>

Serve == Listen \/ Lock \/ StartDevices \/ Accept \/ Fails \/ Resume

LifeNext ==
    \/ \E d \in Device : AddDevice(d)
    \/ Serve \/ CloseListener
    \/ Cancel \/ Hiccup
    \/ \E c \in Dialer : Dial(c)

LifeSpec == LifeInit /\ [][LifeNext]_lifeVars

\* Serve runs on, a pause ends, and the goroutine that waits for ctx gets to run.
LiveSpec == LifeSpec /\ WF_lifeVars(Serve) /\ WF_lifeVars(CloseListener)
=============================================================================
