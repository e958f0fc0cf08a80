------------------------------ MODULE MCLaunch ------------------------------
(* Small instances of Launch for TLC: addresses of three bits. *)
EXTENDS Launch

C(addr, len) == [addr |-> addr, len |-> len]

\* One half of the address space, a network of the other, and a network inside
\* the first half.
Low == C(<<0, 0, 0>>, 1)
Mid == C(<<1, 0, 0>>, 2)
Inner == C(<<0, 1, 0>>, 2)
ApartCidrs == {Low, Mid}
NestedCidrs == {Low, Inner}
MetaAddrs == {<<1, 0, 1>>}

\* Port 443 is beyond the bitmap.
SomePorts == {{22}, {53}, {22, 53}, {53, 443}}

Git == <<"usr", "bin", "git">>
Vi == <<"usr", "bin", "vi">>
View == <<"usr", "bin", "view">>
Tool == <<"opt", "tool">>
Binaries == {Git, Vi, Tool}
Inodes == [p \in {Git, Vi, View, Tool} |-> IF p = View THEN Vi ELSE p]
AliasedBinaries == {Vi, View}
RunGit == {Git}
RunVi == {Vi}
TemplateDirs == { <<>>, <<"usr">>, <<"usr", "bin">>, <<"lib">>, <<"lib64">>, <<"etc">>,
                  <<"etc", "ssl">>, <<"etc", "ssl", "certs">>, <<"opt">> }

-----------------------------------------------------------------------------
(* Documents *)

Rule(path, access) == [path |-> Spelled(path), access |-> access, allowWorkspaceExec |-> FALSE]
Fs(rules) == <<[default |-> "deny", rules |-> rules]>>
Exec(entries) == <<[default |-> "deny", allow |-> entries]>>
Entry(kind, path) == [kind |-> kind, path |-> Spelled(path)]
Net(entries) == <<[default |-> "deny", egress |-> entries]>>
Egress(kind, cidr, ports) == [kind |-> kind, cidr |-> cidr, ports |-> ports]
Runtime(profile, know) == <<[seccompProfile |-> profile, iKnowWhatImDoing |-> know]>>
Document(fs, exec, net, runtime) ==
  [ apiVersion |-> "aivisor/v1", kind |-> "SandboxPolicy",
    filesystem |-> fs, exec |-> exec, network |-> net, runtime |-> runtime ]
NoSection == <<>>

BinExec == Rule(<<"usr", "bin">>, {"read", "execute"})
OptRead == Rule(<<"opt">>, {"read"})
WorkspaceAll == Rule(<<"workspace">>, {"read", "write", "create", "delete", "truncate"})

\* Landlock lets everything in /usr/bin run, and /opt only be read.
GitDoc == Document(Fs(<<BinExec, OptRead, WorkspaceAll>>), Exec(<<Entry("path", Git)>>), NoSection, NoSection)
\* A prefix, and egress rules direct and via the broker; 65558 is port 22.
NetDoc ==
  Document(Fs(<<Rule(<<>>, {"read"})>>), Exec(<<Entry("prefix", <<"usr", "bin">>), Entry("other", Tool)>>),
           Net(<<Egress("direct", Mid, {65558}), Egress("via", Low, {22}), Egress("direct", Low, {53})>>),
           Runtime(<<"aivisor-default">>, FALSE))
SoundDocs == {GitDoc, NetDoc}

\* Accepted, but with a path, a profile, a port, an address, a right or a command
\* that ends the launch at some step.
UnsoundDocs ==
  { Document(Fs(<<Rule(<<"srv">>, {"read"})>>), NoSection, NoSection, NoSection),
    Document(Fs(<<Rule(Git, {"read"})>>), NoSection, NoSection, NoSection),
    Document(NoSection, Exec(<<Entry("path", <<"usr", "bin", "ed">>)>>), NoSection, NoSection),
    Document(NoSection, Exec(<<Entry("prefix", <<"usr", "sbin">>)>>), NoSection, NoSection),
    Document(NoSection, Exec(<<Entry("path", Tool)>>), NoSection, NoSection),
    Document(NoSection, Exec(<<>>), NoSection, NoSection),
    Document(NoSection, NoSection, Net(<<Egress("direct", Mid, {443})>>), NoSection),
    Document(NoSection, NoSection, Net(<<Egress("direct", C(<<>>, 0), {22})>>), NoSection),
    Document(NoSection, NoSection, NoSection, Runtime(<<"aivisor-lax">>, FALSE)),
    Document(NoSection, NoSection, NoSection, Runtime(<<"aivisor-strict">>, FALSE)) }

\* Refused, each for one reason.
RefusedDocs ==
  { Document(Fs(<<Rule(p, {"read", w})>>), NoSection, NoSection, NoSection)
      : p \in SystemDirectories, w \in WriteWords }
  \cup
  { [Document(NoSection, NoSection, NoSection, NoSection) EXCEPT !.kind = "SandboxSpec"],
    [Document(NoSection, NoSection, NoSection, NoSection) EXCEPT !.apiVersion = "aivisor/v2"],
    Document(Fs(<<[OptRead EXCEPT !.path.abs = FALSE]>>), NoSection, NoSection, NoSection),
    Document(Fs(<<Rule(<<"workspace">>, {"execute"})>>), NoSection, NoSection, NoSection),
    Document(<<[default |-> "allow", rules |-> <<>>]>>, NoSection, NoSection, NoSection),
    Document(NoSection, <<[default |-> "allow", allow |-> <<>>]>>, NoSection, Runtime(<<>>, FALSE)),
    Document(NoSection, Exec(<<Entry("prefix", <<"usr", "..", "bin">>)>>), NoSection, NoSection),
    Document(NoSection, NoSection, <<[default |-> "allow", egress |-> <<>>]>>, Runtime(<<>>, TRUE)) }
AllDocs == SoundDocs \cup UnsoundDocs \cup RefusedDocs

-----------------------------------------------------------------------------
(* Documents of the departures *)

BinDocs == {Document(Fs(<<BinExec>>), Exec(<<>>), NoSection, NoSection)}
PrefixDocs == {Document(NoSection, Exec(<<Entry("prefix", <<"usr", "bin">>)>>), NoSection, NoSection)}
\* A system directory spelled with a slash at the end.
SlashDocs ==
  {Document(Fs(<<[Rule(<<"usr">>, {"write"}) EXCEPT !.path.slash = TRUE]>>), NoSection, NoSection, NoSection)}
\* A CIDR with two rules.
TwiceDocs ==
  {Document(NoSection, Exec(<<Entry("path", Git)>>),
            Net(<<Egress("direct", Low, {22}), Egress("direct", Low, {53})>>), NoSection)}
StrictDocs == {Document(NoSection, NoSection, NoSection, Runtime(<<"aivisor-strict">>, FALSE))}
NoDocs == {}
=============================================================================
