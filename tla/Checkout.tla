------------------------------ MODULE Checkout ------------------------------
(***************************************************************************)
(* The clone that a review works on (ar-review/src/workspace.rs), the      *)
(* .auto_review.yaml in it, as the review, the chat commands and           *)
(* `validate-config` read it (config.rs, ar-chat/src/handler.rs,           *)
(* ar-cli/src/commands.rs), and the two tools the agentic verifier offers  *)
(* the model on it (workspace_tools.rs).                                   *)
(*                                                                         *)
(* The tree is a set of nodes with a parent, a name and a kind; a path is  *)
(* a sequence of names.  A line of a file is one unit of size and says     *)
(* whether the model's pattern matches it.                                 *)
(***************************************************************************)
EXTENDS Naturals, Sequences, FiniteSets, FiniteSetsExt, SequencesExt

CONSTANTS
    Nodes,          \* nodes of the file system, "ws" the workspace root
    Node,           \* Node[n]: [parent, name, kind, target, lines]
    Requests,       \* paths the model may ask for: [absolute, parts]
    SkippedNames,   \* directories a search does not enter
    ReadCap,        \* max_bytes of read_file, in lines
    FileCap,        \* SCAN_FILE_MAX_BYTES, in lines
    MaxHits,        \* max_hits of search
    MaxDepth        \* WALK_MAX_DEPTH

(* The nodes are a tree: whoever goes up from one parent to the next comes *)
(* to an end.                                                              *)
ASSUME CheckoutAssumption ==
    /\ IsFiniteSet(Nodes) /\ "ws" \in Nodes
    /\ \A n \in Nodes :
          /\ Node[n].kind \in {"file", "dir", "link"}
          /\ Node[n].target \in Nodes \cup {"missing"}
          /\ Node[n].parent \in Nodes \cup {"none"}
          /\ Node[n].lines \in Seq(BOOLEAN)
    /\ \A some \in (SUBSET Nodes) \ {{}} : \E n \in some : Node[n].parent \notin some
    /\ \A request \in Requests : request.parts \in Seq(STRING)
    /\ {ReadCap, FileCap, MaxHits, MaxDepth} \subseteq Nat

VARIABLES
    repo,       \* repo[c]: the two config files at commit c, base or head
    co          \* the checkout: [pc, at, config, chat, valid, answer]

checkoutVars == <<repo, co>>

-----------------------------------------------------------------------------
(* Configuration.  A file is absent, too large, not readable as YAML of    *)
(* the right shape, parsed although it has unknown keys ("odd"), or fine.  *)
ConfigFiles == {"absent", "big", "broken", "odd", "fine"}
Commits == {"base", "head"}

(* parse_repo_config: unknown keys are ignored, and size is no matter.     *)
(* The result is the file whose settings are in force, or "default".       *)
ParseRepoConfig(commit, name) ==
    IF repo[commit][name] = "broken" THEN "default" ELSE name

(* Mutant: the alternative name comes first. *)
LoadRepoConfigAltFirst(commit) ==
    LET present == {n \in {"yaml", "yml"} : repo[commit][n] # "absent"}
    IN  IF present = {} THEN "default"
        ELSE LET name == IF "yml" \in present THEN "yml" ELSE "yaml"
             IN  IF repo[commit][name] = "big" THEN "default"
                 ELSE ParseRepoConfig(commit, name)

(* The first of the two names that is there decides, for good or ill. *)
FirstPresent(commit) ==
    IF repo[commit]["yaml"] # "absent" THEN "yaml" ELSE "yml"

(* load_repo_config *)
LoadRepoConfig(commit) ==
    LET name == FirstPresent(commit)
    IN  IF repo[commit][name] \in {"absent", "big"} THEN "default"
        ELSE ParseRepoConfig(commit, name)

(* load_repo_config_for_chat, from the base branch and without a cap; the  *)
(* forge may fail to give the file.                                        *)
LoadRepoConfigForChat ==
    LET name == FirstPresent("base")
    IN  {"unread", IF repo["base"][name] = "absent" THEN "default"
                   ELSE ParseRepoConfig("base", name)}

(* parse_repo_config_strict *)
ParseStrict(commit, name) ==
    IF repo[commit][name] = "odd" THEN "default" ELSE ParseRepoConfig(commit, name)

(* expand_config_paths of a directory. *)
ExpandConfigPaths(commit) == {n \in {"yaml", "yml"} : repo[commit][n] # "absent"}

(* validate_config: every file has to pass, and there has to be one. *)
ValidateConfig(commit, strict) ==
    LET files == ExpandConfigPaths(commit)
        passes(n) == (IF strict THEN ParseStrict(commit, n)
                      ELSE ParseRepoConfig(commit, n)) # "default"
    IN  files # {} /\ \A n \in files : passes(n)

-----------------------------------------------------------------------------
(* Tools.                                                                  *)

Outside == "missing"
Child(n, name) ==
    LET found == {m \in Nodes : Node[m].parent = n /\ Node[m].name = name}
    IN  IF found = {} THEN Outside ELSE CHOOSE m \in found : TRUE

(* One component of a path, a link followed. *)
Descend(n, name) ==
    IF n = Outside \/ Node[n].kind # "dir" THEN Outside
    ELSE LET m == Child(n, name)
         IN  IF m # Outside /\ Node[m].kind = "link" THEN Node[m].target ELSE m

Canonicalize(parts) ==
    LET at[i \in 0..Len(parts)] == IF i = 0 THEN "ws" ELSE Descend(at[i - 1], parts[i])
    IN  at[Len(parts)]

(* starts_with: the workspace is one of the nodes on the way up. *)
InsideWorkspace(n) ==
    LET above[m \in Nodes] ==
            IF Node[m].parent = "none" THEN {m} ELSE {m} \cup above[Node[m].parent]
    IN  "ws" \in above[n]

(* Mutant: links are not followed before the check. *)
ResolveLexically(request) ==
    IF request.absolute \/ ".." \in Range(request.parts) THEN "escape"
    ELSE Canonicalize(request.parts)

(* resolve_inside *)
ResolveInside(request) ==
    IF request.absolute \/ ".." \in Range(request.parts) THEN "escape"
    ELSE LET n == Canonicalize(request.parts)
         IN  IF n # Outside /\ ~InsideWorkspace(n) THEN "escape" ELSE n

NoAnswer == [tool |-> "none", node |-> "none", hits |-> {}, cut |-> FALSE,
             from |-> 0, to |-> 0]

(* read_file: a range that makes no sense is the whole file.  A directory  *)
(* cannot be read, and a file over the cap is as good as missing.          *)
ReadFile(request, start, end) ==
    LET n == ResolveInside(request)
        total == Max({Len(Node[n].lines), 1})
        first == IF start >= 1 /\ end >= start THEN start ELSE 1
        last == IF start >= 1 /\ end >= start THEN Min({end, total}) ELSE total
        shown == {i \in first..last : i <= Len(Node[n].lines)}
    IN  IF n \in {"escape", Outside} THEN NoAnswer
        ELSE IF Node[n].kind # "file" \/ Len(Node[n].lines) > FileCap THEN NoAnswer
        ELSE [tool |-> "read", node |-> n, from |-> start, to |-> end,
              cut |-> Cardinality(shown) > ReadCap,
              hits |-> {<<n, i>> : i \in {k \in shown : k < first + ReadCap}}]

(* walk_dir_at_depth: how far below the start a node is found, if at all;  *)
(* skipped names and links are not entered.                                *)
FoundAt(start, n) ==
    LET up[m \in Nodes] ==
            IF m = start THEN 0
            ELSE IF Node[m].parent = "none" \/ Node[m].kind = "link"
                    \/ Node[m].name \in SkippedNames
            THEN MaxDepth + 1
            ELSE 1 + up[Node[m].parent]
    IN  up[n]

(* scan_file *)
Matches(n) ==
    IF Len(Node[n].lines) > FileCap THEN {}
    ELSE {<<n, i>> : i \in {k \in 1..Len(Node[n].lines) : Node[n].lines[k]}}

Searched(n) ==
    {m \in Nodes : Node[m].kind = "file" /\ FoundAt(n, m) <= MaxDepth}

(* search: the order of read_dir decides which hits are kept. *)
Searches(request) ==
    LET n == ResolveInside(request)
        all == UNION {Matches(m) : m \in Searched(n)}
        kept == Min({MaxHits, Cardinality(all)})
    IN  IF n \in {"escape", Outside} THEN {NoAnswer}
        ELSE {[NoAnswer EXCEPT !.tool = "search", !.node = n, !.hits = hits,
                               !.cut = kept = MaxHits] :
                 hits \in {s \in SUBSET all : Cardinality(s) = kept}}

-----------------------------------------------------------------------------
Co(pc) == co' = [co EXCEPT !.pc = pc]

(* The temporary directory goes with the value that holds it. *)
DropWorkspace ==
    /\ co.pc \in {"created", "cloned", "fetched", "ready"}
    /\ co' = [co EXCEPT !.pc = "dropped", !.at = "none"]
    /\ UNCHANGED repo

(* prepare_workspace_from_clone_url: a head_sha that is no hex number is   *)
(* refused; any failing step drops the directory.                          *)
CreateTempDir ==
    /\ co.pc = "start"
    /\ \E valid \in BOOLEAN : Co(IF valid THEN "created" ELSE "dropped")
    /\ UNCHANGED repo

GitClone ==
    /\ co.pc = "created"
    /\ Co("cloned")
    /\ UNCHANGED repo

GitFetch ==
    /\ co.pc = "cloned"
    /\ Co("fetched")
    /\ UNCHANGED repo

GitCheckout ==
    /\ co.pc = "fetched"
    /\ co' = [co EXCEPT !.pc = "ready", !.at = "head"]
    /\ UNCHANGED repo

LoadConfig ==
    /\ co.pc = "ready"
    /\ co' = [co EXCEPT !.config = LoadRepoConfig(co.at)]
    /\ UNCHANGED repo

LoadConfigForChat ==
    /\ \E config \in LoadRepoConfigForChat : co' = [co EXCEPT !.chat = config]
    /\ UNCHANGED repo

(* Someone runs validate-config in their own checkout of a commit; `valid` *)
(* has the commits it exited with success for.                             *)
RunValidateConfig ==
    /\ \E commit \in Commits, strict \in BOOLEAN :
          co' = [co EXCEPT !.valid = IF ValidateConfig(commit, strict)
                                     THEN @ \cup {commit} ELSE @]
    /\ UNCHANGED repo

(* tool_read_file and tool_search, for whatever the model asks. *)
UseReadFile ==
    /\ co.pc = "ready"
    /\ \E request \in Requests, start, end \in 0..FileCap + 1 :
          co' = [co EXCEPT !.answer = ReadFile(request, start, end)]
    /\ UNCHANGED repo

UseSearch ==
    /\ co.pc = "ready"
    /\ \E request \in Requests : \E answer \in Searches(request) :
          co' = [co EXCEPT !.answer = answer]
    /\ UNCHANGED repo

CheckoutInit ==
    /\ repo \in [Commits -> [{"yaml", "yml"} -> ConfigFiles]]
    /\ co = [pc |-> "start", at |-> "none", config |-> "none", chat |-> "none",
             valid |-> {}, answer |-> NoAnswer]

PrepareStep == CreateTempDir \/ GitClone \/ GitFetch \/ GitCheckout \/ DropWorkspace
ConfigStep == LoadConfig \/ LoadConfigForChat \/ RunValidateConfig
ToolStep == UseReadFile \/ UseSearch

-----------------------------------------------------------------------------
(* What validate-config has passed is what the bot then uses: the review   *)
(* takes the validated file of its head commit, and a chat command on the  *)
(* base branch that branch's; only the size cap, which just the review's   *)
(* loader has, or a forge that does not answer can come between            *)
(* (config.rs:219-272, commands.rs:1650-1737, handler.rs:557-586).         *)
ValidatedIsInForce ==
    /\ "head" \in co.valid /\ co.config # "none" =>
          \/ co.config = FirstPresent("head")
          \/ repo["head"][FirstPresent("head")] = "big"
    /\ "base" \in co.valid /\ co.chat # "none" =>
          co.chat \in {FirstPresent("base"), "unread"}

(* Whatever path and range the model asks for, the tools show lines of     *)
(* regular files inside the workspace, no more than the caps, and exactly  *)
(* what was asked unless a cap was reached: the lines of the range that    *)
(* exist, or every match below the place searched                          *)
(* (workspace_tools.rs:60-350).                                            *)
ToolsTellTheTruth ==
    LET a == co.answer IN
        /\ \A h \in a.hits : /\ Node[h[1]].kind = "file" /\ InsideWorkspace(h[1])
                             /\ Len(Node[h[1]].lines) <= FileCap
        /\ a.tool = "read" =>
              /\ Cardinality(a.hits) <= ReadCap
              /\ (~a.cut /\ 1 <= a.from /\ a.from <= a.to) =>
                    \A i \in 1..Len(Node[a.node].lines) :
                        <<a.node, i>> \in a.hits <=> a.from <= i /\ i <= a.to
        /\ a.tool = "search" =>
              /\ Cardinality(a.hits) <= MaxHits
              /\ \A h \in a.hits : Node[h[1]].lines[h[2]]
              /\ ~a.cut => \A n \in Searched(a.node) : Matches(n) \subseteq a.hits
=============================================================================
