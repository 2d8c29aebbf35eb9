----------------------------- MODULE MCProgress -----------------------------
(* What must eventually happen outside the thread pool: a call of generate *)
(* returns, and a load of the streaming engine completes.  The two share   *)
(* nothing here: a behaviour is one of one component, while the variables  *)
(* of the other stay as they are.                                          *)
EXTENDS Session, TLC

CONSTANTS
    w1, w2, c1, c2, NoThread

VARIABLES
    part,     \* the component of the behaviour
    s1, s2, s3, s4, s5, s6, s7, s8, s9, s10, s11, s12, s13, s14, s15, s16,
    s17, s18  \* the variables of Stream

slots == <<s1, s2, s3, s4, s5, s6, s7, s8, s9, s10, s11, s12, s13, s14, s15, s16,
           s17, s18>>
progressVars == <<part, vars, slots>>

Str == INSTANCE Stream WITH
    Workers <- {w1, w2}, Clients <- {c1, c2}, MaxBlocks <- 2,
    RamCapacity <- 2, HasPool <- TRUE, IoCapacity <- 1, Faults <- TRUE,
    Tiers <- {"RAM"}, Operations <- {"prefetch", "await"}, MaxPins <- 1,
    MaxTicks <- 1, MaxUsage <- 3, NoThread <- NoThread, num_blocks <- s1,
    status <- s2, tier <- s3, ram <- s4, loaded <- s5, pin_count <- s6,
    tick <- s7, clock <- s8, owner <- s9, global_owner <- s10,
    ram_usage <- s11, jobs <- s12, wpc <- s13, wblock <- s14, scan <- s15,
    lru <- s16, cpc <- s17, cblock <- s18

ASSUME ProgressAssumptions == SessionAssumption /\ Str!StreamAssumption

-----------------------------------------------------------------------------
ProgressInit == part \in {"stream", "session"} /\ Init /\ Str!Init

\* The clients of Stream stop at their bounds.
ProgressNext ==
    \/ part = "stream" /\ Str!Next /\ UNCHANGED <<part, vars>>
    \/ part = "session" /\ Next /\ UNCHANGED <<part, slots>>
    \/ part = "stream" /\ UNCHANGED progressVars

\* The fairness of Stream's and of Session's FairSpec.
ProgressSpec ==
    /\ ProgressInit /\ [][ProgressNext]_progressVars
    /\ \A w \in {w1, w2} :
          SF_progressVars(part = "stream" /\ Str!Worker(w) /\ UNCHANGED <<part, vars>>)
    /\ \A c \in {c1, c2} :
          SF_progressVars(part = "stream" /\ Str!Client(c) /\ UNCHANGED <<part, vars>>)
    /\ WF_progressVars(part = "session" /\ GenerateStep /\ UNCHANGED <<part, slots>>)

\* Stream: a requested load completes: the block leaves IN_TRANSIT.
LoadCompletes ==
    \A b \in 1..2 : Str!InTransit(b) ~> ~Str!InTransit(b)
=============================================================================
