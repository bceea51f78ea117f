------------------------- MODULE MCClusterCommands -------------------------
(* Two cluster images and one application image on two masters and a worker. *)
EXTENDS ClusterCommands

MCHosts == {"m1", "m2", "w1"}

MCFirstIP == [cidr |-> Some("ip"), bad |-> None]

\* Both cluster images bring a value of E of their own; only the first has
\* applications, one with an environment, and only the second global commands.
MCExt ==
  [i1 |-> [type |-> "kube", env |-> <<<<"E", "i1">>>>, cmds |-> None, names |-> <<"a", "b">>,
           appCmd |-> [a |-> "start-a", b |-> "start-b"],
           appEnv |-> [a |-> <<<<"E", "app">>>>, b |-> <<>>]],
   i2 |-> [type |-> "kube", env |-> <<<<"E", "i2">>>>, cmds |-> Some(<<"start">>), names |-> <<>>,
           appCmd |-> <<>>, appEnv |-> <<>>],
   p1 |-> [type |-> "app", env |-> <<>>, cmds |-> None, names |-> <<"a">>,
           appCmd |-> [a |-> "start-a"], appEnv |-> [a |-> <<<<"E", "app">>>>]]]

Shell(src) ==
  [name |-> 1, type |-> "SHELL", phases |-> HostPhases \cup ClusterPhases, scope |-> {"master", "node"}, src |-> src]
MCPlugins == [i \in DOMAIN MCExt |-> IF i = "p1" THEN <<>> ELSE <<Shell(i)>>]

MCSplit == [v1 |-> {"s1", "s2"}, v2 |-> {"s2", "s3"}]
MCExtended == {"RegistryPortRange"}

\* A file with a user's E, a list of names, a value for a variable sealer computes
\* and one whose name begins like it.
Highly ==
  [image |-> "i1", M |-> {"m1", "m2"}, W |-> {},
   env |-> <<<<"CertSANs", "v1">>, <<"E", "user">>, <<"CertSANs", "v2">>, <<"RegistryURL", "mine">>,
             <<"RegistryPortRange", "mine">>, <<"SvcCIDR", "cidr">>>>,
   cmds |-> <<>>, names |-> None, registry |-> [local |-> None, external |-> None],
   runtime |-> "docker", app |-> None, plugins |-> <<>>, want |-> <<>>, forced |-> <<>>]

\* One with an external registry, applications with configs and a plugin.
Configured ==
  [Highly EXCEPT !.M = {"m1"}, !.W = {}, !.registry = [local |-> None, external |-> Some("hub")], !.runtime = "",
                 !.names = Some(<<"a", "b">>),
                 !.plugins = <<[Shell("file") EXCEPT !.name = 0, !.phases = {"pre-init-host"}]>>,
                 !.app = Some([kind |-> "Application", cmds |-> <<>>, names |-> None,
                               configs |-> <<[name |-> "a", launch |-> Some(Some(<<"mine">>)), env |-> <<<<"E", "ca">>>>],
                                             [name |-> "b", launch |-> None, env |-> <<<<"F", "cb">>>>]>>])]

\* Files that are refused: a CIDR that does not parse, a plugin of no known type.
BadNet == [Configured EXCEPT !.env = <<<<"SvcCIDR", "bad">>>>]
BadPlugin == [Highly EXCEPT !.plugins = <<[Shell("file") EXCEPT !.type = "GOLANG"]>>]

MCFiles == {Highly, Configured, BadNet, BadPlugin}

NoFlags == [env |-> <<>>, cmds |-> <<>>, names |-> None, M |-> {}, W |-> {}]
MCFlagSets == {[NoFlags EXCEPT !.env = <<<<"E", "flag">>, <<"RegistryURL", "flag">>>>]}

MCArgSets ==
  {<<"i2", [NoFlags EXCEPT !.M = {"m1"}, !.env = <<<<"E", "flag">>>>]>>,
   <<"p1", [NoFlags EXCEPT !.cmds = <<"mine">>]>>}

MCScaleSets == {[M |-> {"m2"}, W |-> {}], [M |-> {}, W |-> {"w1"}]}
MCAltSets == {{"vip"}}
=============================================================================
