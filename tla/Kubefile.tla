------------------------------ MODULE Kubefile ------------------------------
(***************************************************************************)
(* build/kubefile/parser: a Kubefile is scanned into instructions, each of *)
(* which is turned into lines of a Dockerfile and into the applications of *)
(* the image.  Text is abstracted to words: a physical line holds the      *)
(* words it contributes and whether it ends with the escape token.         *)
(***************************************************************************)
EXTENDS Naturals, Sequences, FiniteSets, SequencesExt, Functions

CONSTANTS Kubefiles,         \* the Kubefiles a build may be given: sequences of lines
          Src,               \* what a source word of APP or COPY stands for: [scheme, dir, kinds, images]
          MaxDownloadFaults  \* bound on downloads that fail in a behaviour

VARIABLES
  ast,     \* the instructions still to process
  res,     \* KubefileResult, and the counters of generateResult
  dirs,    \* "sealer-remote-files" directories present in the build context
  dlFaults \* downloads that failed so far

parserVars == <<ast, res, dirs, dlFaults>>

----------------------------------------------------------------------------
(* Scanning.  A line is [kind, words, more]; kind "escape" is a parser      *)
(* directive, "comment" any other comment, "blank" or "text".               *)

\* What the scanner carries: nodes so far, the words of an unfinished line,
\* whether a line is open, whether directives are over, and an error.
ScanStart == [nodes |-> <<>>, words |-> <<>>, open |-> FALSE,
              done |-> FALSE, seen |-> FALSE, err |-> FALSE]

\* possibleParserDirective: directives come first and at most once.
Directive(s, l) ==
  IF s.done THEN s
  ELSE IF l.kind = "escape" THEN [s EXCEPT !.seen = TRUE, !.err = s.seen]
  ELSE [s EXCEPT !.done = TRUE]

\* The instructions of which more than a list of words is expected.
ListCommands == {"add", "copy", "app", "appcmds", "appenv", "cni", "csi",
                 "launch", "cmds", "cmd"}

\* splitCommand: the command, a flag that comes next, and the rest.
Flags == {"--platform=amd64", "--platform=arm64", "--flag"}
SplitCommand(words) ==
  LET flagged == Len(words) > 1 /\ words[2] \in Flags
  IN [cmd |-> words[1], flag |-> IF flagged THEN words[2] ELSE "",
      args |-> SubSeq(words, IF flagged THEN 3 ELSE 2, Len(words))]

\* The platform a flag names.
FlagPlatform(flag) ==
  CASE flag = "--platform=amd64" -> "amd64"
    [] flag = "--platform=arm64" -> "arm64"
    [] OTHER -> ""

\* parseMaybeJSON: an array of anything but strings is an error where an array
\* is allowed.  parseLabel: a name needs a value.
BadJSON(n) == n.cmd \in ListCommands \cup {"run"} /\ Contains(n.args, "[1]")
BadLabel(n) == n.cmd = "label" /\ Len(n.args) = 1

\* A finished line becomes a node.
NewNodeFromLine(words) ==
  LET n == SplitCommand(words)
  IN [cmd |-> n.cmd, flag |-> n.flag, args |-> n.args, err |-> BadJSON(n) \/ BadLabel(n)]

CloseLine(s) ==
  LET n == NewNodeFromLine(s.words)
  IN IF n.err THEN [s EXCEPT !.err = TRUE]
     ELSE [s EXCEPT !.nodes = Append(@, n), !.words = <<>>, !.open = FALSE]

\* One physical line: blank lines and comments inside a continued line are
\* skipped and do not end it.
ScanLine(s, l) ==
  LET d == Directive(s, l)
      t == [d EXCEPT !.words = @ \o l.words, !.open = l.more]
  IN IF d.err THEN d
     ELSE IF l.kind # "text" THEN d
     ELSE IF l.more THEN t ELSE CloseLine(t)

\* parse: the file that ends inside a continued line ends the line.
Parse(lines) ==
  LET s == FoldLeft(ScanLine, ScanStart, lines)
  IN IF s.open /\ ~s.err THEN CloseLine(s) ELSE s

----------------------------------------------------------------------------
(* Applications.  A source has the kinds of the files it holds, one for a   *)
(* file.                                                                    *)

Chart == {"chart", "values", "templates"}

\* isHelm: a chart directory, or the three parts among the files given.
IsHelm(sources) ==
  \/ \E s \in Range(sources) : s.dir /\ Chart \subseteq s.kinds
  \/ Chart \subseteq UNION {IF s.dir THEN s.kinds \ {"templates"} ELSE s.kinds :
                              s \in Range(sources)}

\* getApplicationType: the type is certain or there is none.
GetApplicationType(sources) ==
  LET kinds == UNION {s.kinds : s \in Range(sources)}
      yaml  == {"yaml", "chart", "values"}
  IN IF IsHelm(sources) THEN "helm"
     ELSE IF kinds # {} /\ kinds \subseteq yaml THEN "kube"
     ELSE IF kinds = {"sh"} THEN "shell"
     ELSE ""

\* getApplicationFiles: a shell application launches its first source only, a
\* chart is launched by name.
GetApplicationFiles(type, sources) ==
  CASE type = ""      -> {}
    [] type = "helm"  -> {"name"}
    [] type = "shell" -> IF sources = <<>> THEN {} ELSE sources[1].kinds
    [] type = "kube"  -> UNION {s.kinds : s \in Range(sources)}

NewV1Application(type, files) == [type |-> type, files |-> files, env |-> {}, cmds |-> FALSE]

\* f with the value v at x, x added if need be.
Put(f, x, v) == [y \in DOMAIN f \cup {x} |-> IF y = x THEN v ELSE f[y]]

----------------------------------------------------------------------------
NoResult == [ok |-> TRUE, apps |-> <<>>, cmdsOf |-> {}, envOf |-> <<>>, launch |-> {},
             raw |-> 0, env |-> {}, files |-> {}, docker |-> <<>>, from |-> <<>>, base |-> 0, legacy |-> 0,
             nlaunch |-> 0, ncmds |-> 0, ncmd |-> 0]

ParserInit ==
  /\ ast = <<>> /\ res = NoResult /\ dirs = 0 /\ dlFaults = 0

\* The line an instruction adds to the Dockerfile.
Line(r, l) == [r EXCEPT !.docker = Append(@, l)]

\* CleanLegacyContext removes the directories the result knows of.
CleanLegacyContext(n) == dirs - n

\* An error that generateResult keeps in err: the deferred function cleans up.
Abort ==
  /\ res' = [res EXCEPT !.ok = FALSE, !.legacy = 0]
  /\ dirs' = CleanLegacyContext(res.legacy)
  /\ ast' = <<>>
  /\ UNCHANGED dlFaults

\* An error returned without err: nothing is removed.
AbortUncleaned ==
  /\ res' = [res EXCEPT !.ok = FALSE, !.legacy = 0]
  /\ ast' = <<>>
  /\ UNCHANGED <<dirs, dlFaults>>

\* The counters of the first switch, and what it refuses.
Counted(n) ==
  [res EXCEPT !.nlaunch = @ + (IF n.cmd = "launch" THEN 1 ELSE 0),
              !.ncmds = @ + (IF n.cmd = "cmds" THEN 1 ELSE 0),
              !.ncmd = @ + (IF n.cmd = "cmd" THEN 1 ELSE 0)]

Supported == ListCommands \cup {"arg", "from", "label", "maintainer", "run", "kubeversion", "env"}

Misplaced(n, c) ==
  \/ n.cmd \notin Supported
  \/ n.cmd \in {"launch", "cmds"} /\ Len(ast) # 1
  \/ c.nlaunch > 1 \/ c.ncmds > 1
  \/ c.ncmd >= 1 /\ c.nlaunch = 1

\* The container images named by the files copied to a directory of the rootfs.
ImagesIn(dest, words) ==
  {<<dest, im>> : im \in UNION {Src[w].images : w \in Range(words) \cap DOMAIN Src}}

Bad(r) == [r EXCEPT !.ok = FALSE]
App(n) == IF n.args = <<>> THEN "" ELSE n.args[1]

ProcessCopy(n, r) ==
  IF Len(n.args) < 2 THEN Bad(r)
  ELSE Line([r EXCEPT !.files = @ \cup ImagesIn(Last(n.args), Front(n.args))], <<"copy">> \o n.args)

ProcessGlobalEnv(n, r) == Line([r EXCEPT !.env = @ \cup Range(n.args)], <<n.cmd>> \o n.args)

ProcessKubeVersion(r) == Line(r, <<"label", "version">>)

\* The application must be one of this Kubefile or of its base.
ProcessAppEnv(n, r) ==
  LET old == IF App(n) \in DOMAIN r.envOf THEN r.envOf[App(n)] ELSE {}
  IN IF App(n) \notin DOMAIN r.apps THEN Bad(r)
     ELSE [r EXCEPT !.envOf = Put(@, App(n), old \cup Range(Tail(n.args)))]

ProcessAppCmds(n, r) ==
  IF App(n) \notin DOMAIN r.apps THEN Bad(r) ELSE [r EXCEPT !.cmdsOf = @ \cup {App(n)}]

ProcessLaunch(n, r) ==
  IF Range(n.args) \subseteq DOMAIN r.apps THEN [r EXCEPT !.launch = Range(n.args)] ELSE Bad(r)

\* CMD is one command, CMDS a list of them.
ProcessCmds(n, r) == [r EXCEPT !.raw = @ + (IF n.cmd = "cmd" THEN 1 ELSE Len(n.args))]

\* processOnCmd for the instructions that need nothing from outside: the
\* result, or ok = FALSE.
ProcessOnCmd(n, r) ==
  CASE n.cmd \in {"label", "maintainer", "add", "arg", "run"} -> Line(r, <<n.cmd>> \o n.args)
    [] n.cmd = "env"         -> ProcessGlobalEnv(n, r)
    [] n.cmd = "copy"        -> ProcessCopy(n, r)
    [] n.cmd = "kubeversion" -> ProcessKubeVersion(r)
    [] n.cmd = "appenv"      -> ProcessAppEnv(n, r)
    [] n.cmd = "appcmds"     -> ProcessAppCmds(n, r)
    [] n.cmd = "launch"      -> ProcessLaunch(n, r)
    [] n.cmd \in {"cmd", "cmds"} -> ProcessCmds(n, r)

\* makeItAsApp; CNI and CSI also add a label.
MakeItAsApp(n, r, sources) ==
  LET type == GetApplicationType(sources)
      app  == NewV1Application(type, GetApplicationFiles(type, sources))
      copied == Line([r EXCEPT !.apps = Put(@, n.args[1], app),
                               !.files = @ \cup ImagesIn("application", n.args)],
                     <<"copy">> \o n.args)
  IN IF n.cmd = "app" THEN copied ELSE Line(copied, <<"label", n.cmd, n.args[1]>>)

Sources(n) == [i \in 1 .. Len(n.args) - 1 |-> Src[n.args[i + 1]]]

\* processApp without remote files.
ProcessLocalApp(n, c) ==
  /\ n.cmd \in {"app", "cni", "csi"}
  /\ \A s \in Range(Sources(n)) : s.scheme # "remote"
  /\ IF \E s \in Range(Sources(n)) : s.scheme = "none" THEN Abort
     ELSE /\ res' = MakeItAsApp(n, c, Sources(n))
          /\ ast' = Tail(ast)
          /\ UNCHANGED <<dirs, dlFaults>>

\* processApp with remote files: a directory is made, and recorded in the
\* legacy context only once every file is there.
ProcessRemoteApp(n, c) ==
  /\ n.cmd \in {"app", "cni", "csi"}
  /\ \E s \in Range(Sources(n)) : s.scheme = "remote"
  /\ IF \E s \in Range(Sources(n)) : s.scheme = "none" THEN Abort
     ELSE \/ /\ res' = [MakeItAsApp(n, c, Sources(n)) EXCEPT !.legacy = @ + 1]
             /\ dirs' = dirs + 1
             /\ ast' = Tail(ast)
             /\ UNCHANGED dlFaults
          \/ /\ dlFaults < MaxDownloadFaults
             /\ dlFaults' = dlFaults + 1
             /\ dirs' = CleanLegacyContext(res.legacy) + 1
             /\ res' = [res EXCEPT !.ok = FALSE, !.legacy = 0]
             /\ ast' = <<>>

\* processFrom: pulled is what Pull and Inspect of the base image give; its
\* applications join the result.  The engine is left the line, with its flag.
ProcessFrom(n, c, pulled) ==
  LET scratch == n.args # <<>> /\ n.args[1] = "scratch"
      apps == [a \in DOMAIN pulled.apps \cup DOMAIN c.apps |->
                 IF a \in DOMAIN pulled.apps THEN pulled.apps[a] ELSE c.apps[a]]
      r == IF scratch THEN c
           ELSE [c EXCEPT !.apps = apps, !.from = <<n.args[1], FlagPlatform(n.flag)>>]
  IN /\ n.cmd = "from"
     /\ IF n.args = <<>> \/ n.flag = "--flag" \/ (~scratch /\ ~pulled.ok) THEN Abort
        ELSE /\ res' = Line(r, <<"from", n.flag>> \o n.args)
             /\ ast' = Tail(ast)
             /\ UNCHANGED <<dirs, dlFaults>>

ProcessPlain(n, c) ==
  /\ n.cmd \notin {"app", "cni", "csi", "from"}
  /\ LET r == ProcessOnCmd(n, c)
     IN IF ~r.ok THEN Abort
        ELSE res' = r /\ ast' = Tail(ast) /\ UNCHANGED <<dirs, dlFaults>>

\* One turn of generateResult's loop.
GenerateResult(pulled) ==
  /\ ast # <<>>
  /\ LET n == Head(ast)  c == Counted(n)
     IN IF Misplaced(n, c) THEN AbortUncleaned
        ELSE \/ ProcessLocalApp(n, c)
             \/ ProcessRemoteApp(n, c)
             \/ ProcessFrom(n, c, pulled)
             \/ ProcessPlain(n, c)

\* Mutant: no application is refused.
UntypedAllowed(r) == {}

\* The checks after the loop, whose error leaves the directories too, and the
\* registration of environments and commands with their applications.
Untyped(r) == {a \in DOMAIN r.apps : r.apps[a].type = "" /\ a \notin r.cmdsOf}

Registered(r) ==
  [a \in DOMAIN r.apps |->
     [r.apps[a] EXCEPT !.env = IF a \in DOMAIN r.envOf THEN r.envOf[a] ELSE @,
                       !.cmds = @ \/ a \in r.cmdsOf]]

CheckResult ==
  IF Untyped(res) # {} THEN [res EXCEPT !.ok = FALSE, !.legacy = 0]
  ELSE [res EXCEPT !.apps = Registered(res)]

\* buildImageExtensionOnResult: what the image's annotation records.
Extension(r) == [apps |-> r.apps, launch |-> r.launch, raw |-> r.raw]
=============================================================================
