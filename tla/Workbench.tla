----------------------------- MODULE Workbench -----------------------------
(***************************************************************************)
(* The parts that work for one caller and share no state with each other:  *)
(* the webhook commands, the GitHub client, the benchmark, the cost of     *)
(* reviews, the checkout with its configuration or its tools, and setting  *)
(* a deployment up.  A behaviour is about one of them; the others stay as  *)
(* they are.                                                               *)
(***************************************************************************)
EXTENDS OperatorCommands, BenchScore, CostLedger, Checkout, Setup

VARIABLE work       \* what this behaviour is about

vars == <<work, hookVars, hostVars, bench, costVars, checkoutVars, setupVars>>

Init ==
    /\ work \in {"hooks", "github", "bench", "cost", "config", "tools", "setup"}
    /\ HookInit
    /\ HostInit
    /\ bench = NoBench
    /\ CostInit
    /\ CheckoutInit
    /\ SetupInit
    /\ work = "cost" \/ backend = "memory"
    /\ work = "config" \/ \A c \in Commits, n \in {"yaml", "yml"} : repo[c][n] = "absent"
    /\ \/ work = "setup"
       \/ /\ shell.urls /\ shell.reasoning = "named" /\ shell.cheap = "named"
          /\ shell.embedding = "named" /\ shell.bare = "on" /\ shell.bot = "fine"
          /\ shell.ci = "unset" /\ shell.secret = "good"

HooksNext ==
    /\ work = "hooks" /\ HookStep
    /\ UNCHANGED <<work, hostVars, bench, costVars, checkoutVars, setupVars>>

GithubNext ==
    /\ work = "github"
    /\ Tick \/ \E g \in Callers : HostStep(g)
    /\ UNCHANGED <<work, hookVars, bench, costVars, checkoutVars, setupVars>>

BenchNext ==
    /\ work = "bench" /\ BenchStep
    /\ UNCHANGED <<work, hookVars, hostVars, costVars, checkoutVars, setupVars>>

CostNext ==
    /\ work = "cost" /\ CostStep
    /\ UNCHANGED <<work, hookVars, hostVars, bench, checkoutVars, setupVars>>

CheckoutNext ==
    /\ \/ work = "config" /\ (PrepareStep \/ ConfigStep)
       \/ work = "tools" /\ (PrepareStep \/ ToolStep)
    /\ UNCHANGED <<work, hookVars, hostVars, bench, costVars, setupVars>>

SetupNext ==
    /\ work = "setup" /\ SetupStep
    /\ UNCHANGED <<work, hookVars, hostVars, bench, costVars, checkoutVars>>

Next == HooksNext \/ GithubNext \/ BenchNext \/ CostNext \/ CheckoutNext \/ SetupNext

Spec == Init /\ [][Next]_vars
=============================================================================
