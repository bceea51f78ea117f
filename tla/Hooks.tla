-------------------------------- MODULE Hooks --------------------------------
(***************************************************************************)
(* pkg/cluster-runtime/hook.go: plugins become hooks of the phases they    *)
(* name; a hook of a host phase runs on the hosts of its scope that the    *)
(* command touches, one of a cluster phase on the first master.  A plugin  *)
(* is [name, type, phases, scope, src]: name its place in alphabetical      *)
(* order, src the image it comes from or "file".  Its script and the order *)
(* of the host loop are left out.                                          *)
(***************************************************************************)
EXTENDS Naturals, Sequences

HookTypes == {"SHELL"}
HostPhases == {"pre-init-host", "post-init-host", "pre-clean-host", "post-clean-host", "upgrade-host"}
ClusterPhases == {"pre-install", "post-install", "pre-uninstall", "post-uninstall",
                  "pre-scaleup", "post-scaleup", "upgrade", "rollback"}
\* The phases that skip a host without a rootfs; the others fail there.
SkipWhenWorkspaceNotExists == {"pre-clean-host", "post-clean-host", "pre-uninstall", "post-uninstall"}

\* transferPluginsToHooks refuses a type nobody registered.
Transferable(plugins) == \A i \in 1..Len(plugins) : plugins[i].type \in HookTypes

\* The hooks of a phase: the places of the plugins that name it.
HooksOf(plugins, phase) == {i \in 1..Len(plugins) : phase \in plugins[i].phases}

\* They run in the order of their names, those of one name in that of their
\* plugins.
Before(plugins, i, j) ==
  plugins[i].name < plugins[j].name \/ (plugins[i].name = plugins[j].name /\ i < j)

\* getHostIPListByScope
getHostIPListByScope(scope, masters, workers) ==
  (IF "master" \in scope THEN masters ELSE {}) \cup (IF "node" \in scope THEN workers ELSE {})

\* The hosts runHostHook or runClusterHook sends a hook to.
Targets(hook, phase, touched, cf, master0) ==
  IF phase \in ClusterPhases THEN {master0}
  ELSE getHostIPListByScope(hook.scope, cf.M, cf.W) \cap touched

\* NewShellHook: the hooks of a phase as pairs of a plugin's origin and the
\* rootfs it runs in, and whether every one could run; rootfs[h] is the image
\* in the rootfs of h, "none" where there is no rootfs.
RunHooks(plugins, phase, touched, cf, master0, rootfs) ==
  LET hooks == HooksOf(plugins, phase)
      Bare(h) == rootfs[h] = "none"
      on(i) == Targets(plugins[i], phase, touched, cf, master0)
      stops == {i \in hooks : phase \notin SkipWhenWorkspaceNotExists /\ \E h \in on(i) : Bare(h)}
      runs == {i \in hooks : \A j \in stops : Before(plugins, i, j)}
  IN [ok |-> stops = {},
      ran |-> UNION {{<<plugins[i].src, rootfs[h]>> : h \in {g \in on(i) : ~Bare(g)}} : i \in runs}]
=============================================================================
