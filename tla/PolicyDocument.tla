--------------------------- MODULE PolicyDocument ---------------------------
(***************************************************************************)
(* A policy document and what becomes of it: parse_policy_str (parser.rs)  *)
(* refuses it or makes a Policy, compile_landlock, compile_bpf and         *)
(* compile_seccomp (compile.rs) turn the policy into the plans of the      *)
(* layers, and build_launch_policy (manager.rs) adds what one command      *)
(* needs.  An optional section is a sequence of at most one element.       *)
(*                                                                         *)
(* A document spells a path: whether it begins with a slash, the names in  *)
(* it and whether it ends with a slash.  A path is the sequence of names.  *)
(***************************************************************************)
EXTENDS Integers, Sequences, FiniteSets, FiniteSetsExt, Functions

Spelled(names) == [abs |-> TRUE, names |-> names, slash |-> FALSE]

\* The names of the examples that contain "..".
Dotted == {"..", "v1..2"}

\* The check on every path and prefix of a document.
PathAccepted(spelled) == spelled.abs /\ \A i \in DOMAIN spelled.names : spelled.names[i] \notin Dotted

-----------------------------------------------------------------------------
(* parse_policy_str *)

IKnow(doc) == doc.runtime # <<>> /\ doc.runtime[1].iKnowWhatImDoing

\* default: allow needs spec.runtime.iKnowWhatImDoing.
DefaultAccepted(doc, section) == section.default = "allow" => IKnow(doc)

WriteWords == {"write", "create", "delete", "truncate"}
SystemPaths_SkipsRoot == {<<"usr">>, <<"etc">>, <<"proc">>, <<"sys">>, <<"dev">>}
SystemPaths == {<<>>, <<"usr">>, <<"etc">>, <<"proc">>, <<"sys">>, <<"dev">>}

\* The rules on /workspace and on the system paths compare spellings, so that a
\* slash at the end makes another path of it.
Is(spelled, path) == spelled.names = path /\ ~spelled.slash

FsRuleAccepted(rule) ==
  /\ PathAccepted(rule.path)
  /\ "execute" \in rule.access /\ Is(rule.path, <<"workspace">>) => rule.allowWorkspaceExec
  /\ (\E p \in SystemPaths : Is(rule.path, p)) => rule.access \cap WriteWords = {}

FsAccepted(doc) ==
  doc.filesystem # <<>> =>
    /\ DefaultAccepted(doc, doc.filesystem[1])
    /\ \A r \in Range(doc.filesystem[1].rules) : FsRuleAccepted(r)

ExecAccepted(doc) ==
  doc.exec # <<>> =>
    /\ DefaultAccepted(doc, doc.exec[1])
    /\ \A e \in Range(doc.exec[1].allow) : e.kind \in {"path", "prefix"} => PathAccepted(e.path)

NetAccepted(doc) == doc.network # <<>> => doc.network[1].default # "allow"

\* parse_policy_str returns a policy, and not an error.
Accepted(doc) ==
  /\ doc.apiVersion = "aivisor/v1" /\ doc.kind = "SandboxPolicy"
  /\ FsAccepted(doc) /\ ExecAccepted(doc) /\ NetAccepted(doc)

\* A port is cast with "as u16".
PortWidth == 16
ParsedPorts(ports) == {n % 2 ^ PortWidth : n \in ports}

\* An exec entry with neither a path nor a prefix is skipped, as is an egress
\* entry that is neither via a broker nor direct.
ParsedExec(exec) ==
  LET known == SelectSeq(exec.allow, LAMBDA e : e.kind \in {"path", "prefix"})
  IN  [i \in DOMAIN known |-> [kind |-> known[i].kind, path |-> known[i].path.names]]
ParsedEgress(net) ==
  LET known == SelectSeq(net.egress, LAMBDA e : e.kind \in {"via", "direct"})
  IN  [i \in DOMAIN known |-> [known[i] EXCEPT !.ports = ParsedPorts(@)]]
ParsedFs(fs) == {[path |-> r.path.names, access |-> r.access] : r \in Range(fs.rules)}

ParsePolicy(doc) ==
  [ filesystem |-> IF doc.filesystem = <<>> THEN {} ELSE ParsedFs(doc.filesystem[1]),
    exec |-> IF doc.exec = <<>> THEN <<>> ELSE <<ParsedExec(doc.exec[1])>>,
    egress |-> IF doc.network = <<>> THEN <<>> ELSE ParsedEgress(doc.network[1]),
    profile |-> IF doc.runtime = <<>> THEN <<>> ELSE doc.runtime[1].seccompProfile ]

\* default_policy(), for a sandbox that names no policy.
DefaultPolicy ==
  LET rule(path, access) == [path |-> path, access |-> access]
      readExecute == {"read", "execute"}
      readWrite == {"read", "write", "create", "delete"}
  IN  [ filesystem |-> { rule(<<"workspace">>, readWrite \cup {"truncate"}),
                         rule(<<"usr">>, readExecute), rule(<<"lib">>, readExecute),
                         rule(<<"lib64">>, readExecute), rule(<<"etc", "ssl", "certs">>, {"read"}),
                         rule(<<"tmp">>, readWrite) },
        exec |-> <<>>, egress |-> <<>>, profile |-> <<>> ]

-----------------------------------------------------------------------------
(* compile_landlock, compile_seccomp, compile_bpf *)

\* landlock_bits: the rights a kernel of an ABI knows.
FirstRights == {"EXECUTE", "WRITE_FILE", "READ_FILE", "READ_DIR", "REMOVE_DIR", "REMOVE_FILE",
                "MAKE_CHAR", "MAKE_DIR", "MAKE_REG", "MAKE_SOCK", "MAKE_FIFO", "MAKE_BLOCK", "MAKE_SYM"}
KnownAtAbi(abi) ==
  FirstRights \cup (IF abi >= 2 THEN {"REFER"} ELSE {}) \cup (IF abi >= 3 THEN {"TRUNCATE"} ELSE {})
              \cup (IF abi >= 5 THEN {"IOCTL_DEV"} ELSE {})

\* access_to_landlock_mask; other words mean nothing.
WordRights ==
  [ read |-> {"READ_FILE", "READ_DIR"}, write |-> {"WRITE_FILE"}, execute |-> {"EXECUTE"},
    create |-> {"MAKE_REG", "MAKE_DIR", "MAKE_SYM", "MAKE_FIFO", "MAKE_SOCK"},
    delete |-> {"REMOVE_FILE", "REMOVE_DIR"}, truncate |-> {"TRUNCATE"} ]
Mask(access) == UNION {WordRights[w] : w \in access \cap DOMAIN WordRights}

ExecRights == {"EXECUTE", "READ_FILE"}
LandlockRule(path, rights) == [path |-> path, rights |-> rights]

\* Every filesystem rule, and every exec rule as EXECUTE and READ_FILE.
CompileLandlock(policy, abi) ==
  {LandlockRule(r.path, Mask(r.access) \cap KnownAtAbi(abi)) : r \in policy.filesystem}
  \cup UNION {{LandlockRule(e.path, ExecRights \cap KnownAtAbi(abi)) : e \in Range(x)}
                : x \in Range(policy.exec)}

CompileSeccomp(policy) == IF policy.profile = <<>> THEN "aivisor-default" ELSE policy.profile[1]

\* compile_bpf keeps the direct rules; what goes via the broker never reaches
\* the connect hooks with its real destination.
CompileNet(policy) ==
  LET direct == SelectSeq(policy.egress, LAMBDA e : e.kind = "direct")
  IN  [i \in DOMAIN direct |-> [cidr |-> direct[i].cidr, ports |-> direct[i].ports]]

\* build_launch_policy: without an exec section, the command itself may run.
BuildLaunchPolicy(policy, cmd, abi) ==
  LET entries(kind) == {e.path : e \in {e \in UNION {Range(x) : x \in Range(policy.exec)} : e.kind = kind}}
      dynamic == IF policy.exec = <<>> THEN {cmd} ELSE {}
  IN  [ landlock |-> CompileLandlock(policy, abi)
                       \cup {LandlockRule(p, ExecRights \cap KnownAtAbi(abi)) : p \in dynamic},
        seccomp |-> CompileSeccomp(policy),
        paths |-> entries("path") \cup dynamic,
        prefixes |-> entries("prefix") ]
=============================================================================
