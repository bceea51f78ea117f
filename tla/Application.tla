----------------------------- MODULE Application -----------------------------
(***************************************************************************)
(* pkg/application and ConstructApplication: which commands start the      *)
(* applications of an image and with which environment their files are     *)
(* rendered.  An application document is [kind, cmds, names, configs],     *)
(* each config [name, launch, env]; an image's extension is [type, env,    *)
(* cmds, names, appCmd, appEnv], the last two functions of the registered  *)
(* applications.  Files a config overwrites or merges are left out.        *)
(***************************************************************************)
EXTENDS ClusterDocs, FiniteSets

\* Go's append to a list with free slots: every config writes into the same
\* slots, and keeps a view of what the last writer left there.
Appended(envs, configs, i, free) ==
  LET fits(j) == Len(configs[j].env) <= free
      Slot(s) == LET later == {j \in i..Len(configs) : fits(j) /\ Len(configs[j].env) >= s}
                 IN configs[CHOOSE j \in later : \A l \in later : l <= j].env[s]
  IN envs \o (IF fits(i) THEN [s \in 1..Len(configs[i].env) |-> Slot(s)] ELSE configs[i].env)

\* Mutation: the config's own environment goes first.
PrependsConfigEnv(app, cmds, names, envs, free) ==
  LET base == IF app # None THEN app[1] ELSE [kind |-> "v2", cmds |-> <<>>, names |-> None, configs |-> <<>>]
  IN [base EXCEPT !.cmds = IF cmds # <<>> THEN cmds ELSE @,
                  !.names = IF names # None THEN names ELSE @,
                  !.configs = [i \in 1..Len(@) |-> [@[i] EXCEPT !.env = @ \o envs]]]

\* ConstructApplication: the document, or a new one whose kind is the API
\* version, with the flags; free is the room behind envs.
ConstructApplication(app, cmds, names, envs, free) ==
  LET base == IF app # None THEN app[1] ELSE [kind |-> "v2", cmds |-> <<>>, names |-> None, configs |-> <<>>]
  IN [base EXCEPT !.cmds = IF cmds # <<>> THEN cmds ELSE @,
                  !.names = IF names # None THEN names ELSE @,
                  !.configs = IF envs = <<>> THEN @
                              ELSE [i \in 1..Len(@) |->
                                      [@[i] EXCEPT !.env = Appended(envs, base.configs, i, free)]]]

----------------------------------------------------------------------------
\* formatImageExtension: the applications the image registers.
formatImageExtension(ext) ==
  [globalCmds |-> ext.cmds, launchApps |-> ext.names,
   cmdsOf |-> [a \in DOMAIN ext.appCmd |-> <<ext.appCmd[a]>>],
   env |-> [a \in DOMAIN ext.appCmd |->
              Merge(ConvertStringSliceToMap(ext.appEnv[a]), ConvertStringSliceToMap(ext.env))]]

IsInSlice(x, seq) == \E i \in 1..Len(seq) : seq[i] = x

\* The last config of an application that is launched; the others of its name
\* add what it does not say.
ConfigsOf(app, launchApps, a) ==
  Only(app.configs, {i \in 1..Len(app.configs) : app.configs[i].name = a /\ IsInSlice(a, launchApps)})

\* The environment of an application after its configs, one after the other.
EnvAfter(configs, env) ==
  LET after[i \in 0..Len(configs)] ==
        IF i = 0 THEN env
        ELSE Merge(ConvertStringSliceToMap(configs[i].env), after[i - 1])
  IN after[Len(configs)]

\* NewAppDriver: [ok, globalCmds, launchApps, cmdsOf, env].
NewAppDriver(app, ext) ==
  LET d == formatImageExtension(ext)
      apps == IF app.names # None THEN app.names[1] ELSE d.launchApps
      Own(a) == ConfigsOf(app, apps, a)
      launched(a) == Only(Own(a), {i \in 1..Len(Own(a)) : Own(a)[i].launch # None})
  IN [ok |-> /\ app.names # None => \A i \in 1..Len(apps) : apps[i] \in {""} \cup DOMAIN d.cmdsOf
             /\ ValidApplication(app),
      globalCmds |-> IF app.cmds # <<>> THEN Some(app.cmds) ELSE d.globalCmds,
      launchApps |-> apps,
      cmdsOf |-> [a \in DOMAIN d.cmdsOf |->
                    IF launched(a) = <<>> THEN d.cmdsOf[a]
                    ELSE launched(a)[Len(launched(a))].launch[1][1]],
      env |-> [a \in DOMAIN d.env |-> EnvAfter(Own(a), d.env[a])]]

\* GetImageLaunchCmds: global commands hide those of the applications.
GetImageLaunchCmds(d) ==
  IF d.globalCmds # None THEN d.globalCmds[1]
  ELSE LET cmds[i \in 0..Len(d.launchApps)] ==
             IF i = 0 THEN <<>>
             ELSE LET a == d.launchApps[i]
                  IN cmds[i - 1] \o (IF a \in DOMAIN d.cmdsOf THEN d.cmdsOf[a] ELSE <<>>)
       IN cmds[Len(d.launchApps)]

\* FileProcess: what the files of each application are rendered with.
FileProcess(d) == d.env
=============================================================================
