---------------------------- MODULE MCBuildImage ----------------------------
(***************************************************************************)
(* Instances of BuildImage: Kubefiles that succeed, that fail in each way, *)
(* and options that take each path of a build.                             *)
(***************************************************************************)
EXTENDS BuildImage

Text(words) == [kind |-> "text", words |-> words, more |-> FALSE]
Open(words) == [kind |-> "text", words |-> words, more |-> TRUE]
Other(kind) == [kind |-> kind, words |-> <<>>, more |-> FALSE]

MCKubefiles ==
  [web |-> <<Other("escape"), Text(<<"from", "base">>), Text(<<"copy", "list", "imageList">>),
             Open(<<"app", "web">>), Other("comment"), Text(<<"urlyaml">>),
             Text(<<"launch", "web", "core">>)>>,
   \* The same Dockerfile as plain2 below, other launch commands.
   plain |-> <<Text(<<"from", "scratch">>), Text(<<"env", "e">>), Text(<<"cmds", "c">>)>>,
   plain2 |-> <<Text(<<"from", "scratch">>), Text(<<"env", "e">>), Text(<<"cmd", "c">>),
                Text(<<"cmd", "d">>)>>,
   untyped |-> <<Text(<<"from", "scratch">>), Text(<<"app", "web", "junk", "urlyaml">>),
                 Text(<<"launch", "web">>)>>,
   typed |-> <<Text(<<"from", "base">>), Text(<<"app", "web", "junk">>),
               Text(<<"appcmds", "web", "go">>), Text(<<"appenv", "core", "x">>),
               Text(<<"launch", "web">>)>>,
   \* Built for another platform than the base is asked for.
   pinned |-> <<Text(<<"from", "--platform=amd64", "base">>), Text(<<"launch", "core">>)>>,
   unknown |-> <<Text(<<"from", "scratch">>), Text(<<"cni", "net", "urlyaml">>),
                 Text(<<"launch", "db">>)>>]

MCSrc ==
  [list |-> [scheme |-> "local", dir |-> FALSE, kinds |-> {"other"}, images |-> {"i1"}],
   urlyaml |-> [scheme |-> "remote", dir |-> FALSE, kinds |-> {"yaml"}, images |-> {"i2"}],
   junk |-> [scheme |-> "local", dir |-> FALSE, kinds |-> {"other"}, images |-> {}]]

MCNamed ==
  [i1 |-> [domain |-> "d", repo |-> "r", tag |-> "1"],
   i2 |-> [domain |-> "d", repo |-> "r", tag |-> "2"]]
MCContent ==
  [i1 |-> [amd64 |-> {"x"}, arm64 |-> {"z"}],
   i2 |-> [amd64 |-> {"x", "y"}, arm64 |-> {"z"}]]

Opt(kubefile, plats, lite, cache) ==
  [kubefile |-> kubefile, tag |-> <<"img">>, plats |-> plats, lite |-> lite, cache |-> cache,
   imageList |-> {}, ignored |-> {}, auth |-> <<>>]

Auth(images, login) == <<[images |-> images, login |-> login]>>

MCBuildOptions ==
  {Opt("web", <<"amd64">>, FALSE, TRUE),
   [Opt("typed", <<"amd64", "arm64">>, FALSE, FALSE) EXCEPT
      !.imageList = {"i1", "i2"}, !.ignored = {"i2"}, !.auth = Auth({"i2"}, TRUE)],
   [Opt("plain", <<"arm64">>, FALSE, TRUE) EXCEPT !.auth = Auth({"i1"}, FALSE)],
   Opt("plain", <<"amd64", "arm64">>, TRUE, TRUE),
   Opt("plain2", <<"amd64">>, TRUE, TRUE),
   Opt("pinned", <<"arm64">>, TRUE, TRUE),
   Opt("plain", <<"amd64">>, FALSE, TRUE),
   Opt("untyped", <<"amd64">>, FALSE, TRUE),
   Opt("unknown", <<"amd64">>, FALSE, TRUE)}

\* One download of two images of a repository, for the save_race instance.
MCSaveOptions == {Opt("web", <<"amd64">>, FALSE, TRUE)}

BaseExt == [apps |-> [core |-> [type |-> "kube", files |-> {"yaml"}, env |-> {}, cmds |-> FALSE]],
            launch |-> {"core"}, raw |-> 0]
Base(plat) == [names |-> {<<"base">>}, kind |-> "image", plat |-> plat, inst |-> {}, key |-> NoKey,
               ext |-> BaseExt, files |-> {}, listed |-> {}, saved |-> NoRegistry]

\* An empty store, and one with a list of two instances.
EmptyStore == [img |-> <<>>, ctr |-> <<>>, next |-> 6]
Instance(plat) == [Base(plat) EXCEPT !.names = {}]
ListStore ==
  [img |-> (3 :> Instance("amd64")) @@ (4 :> Instance("arm64"))
           @@ (5 :> [NewList(<<"img">>) EXCEPT !.inst = {3, 4}]),
   ctr |-> <<>>, next |-> 6]
MCStores0 == {EmptyStore, ListStore}
\* No archive, and one of that list.
MCTars0 == {NoArchive, Save(ListStore, <<"img">>, NoArchive).tar}
MCSaveTars == {NoArchive}
MCSaveStores == {EmptyStore}
\* The base for the other platform has another application.
OtherBase == [Base("arm64") EXCEPT !.ext.apps = [edge |-> BaseExt.apps.core], !.ext.launch = {"edge"}]
MCRemote0 == (<<"base">> :> (1 :> Base("amd64") @@ 2 :> OtherBase))
\* A base whose registry directory has the image i1 already.
BaseWithRegistry ==
  [Base("amd64") EXCEPT !.saved = [tags |-> (<<"r", "1">> :> "i1"), mans |-> {<<"r", "i1">>},
                                   links |-> {<<"r", "x">>}]]
MCSaveRemote == (<<"base">> :> (1 :> BaseWithRegistry))
MCImageNames == {<<"img">>, <<"base">>}
=============================================================================
