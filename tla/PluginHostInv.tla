----------------------------- MODULE PluginHostInv -----------------------------
(***************************************************************************)
(* The inductive invariant of the plugin host: one host is under way at a  *)
(* time, it owns the lease, and everything that is registered is its own.  *)
(***************************************************************************)
EXTENDS PluginHost

\* The host has not started, or has finished and let go of everything.
AtRest(h) == phase[h] \in {"idle", "queued", "failed", "closed"}

\* A host owns the lease exactly while it is under way.
OwnerInv ==
    \A h \in Host : ~AtRest(h) <=> owner = h

\* The lease protects the active configuration and its registrations.
ConfigInv ==
    /\ config # <<>> => configured
    /\ configured => owner \in Host /\ phase[owner] \in {"active", "clear", "retained"}
    /\ \A h \in Host :
          /\ phase[h] = "clear" /\ (regs[h] # <<>> \/ kept[h] # <<>>) => configured
          /\ phase[h] = "clear" => config = <<>>

\* Registrations in hand are in hand of a rollback or a teardown.
RegsInv ==
    \A h \in Host :
        /\ regs[h] # <<>> => phase[h] \in {"init", "rollback", "clear"}
        /\ kept[h] # <<>> => phase[h] \in {"rollback", "clear"}

\* A registered kind is tracked by the host that loaded its plugin.
KindsInv ==
    \A k \in Kind : \A h \in Host : handlers[k] = h =>
        /\ k \in Range(nativeKinds[h]) \cup Range(workerKinds[h])
        /\ k \in held[h] /\ k \notin stopped[h]

\* Runtimes are held, and workers stopped, only by a host under way.
RuntimeInv ==
    \A h \in Host :
        /\ AtRest(h) => held[h] = {} /\ nativeKinds[h] = <<>> /\ workerKinds[h] = <<>>
        /\ phase[h] \in {"idle", "queued", "load", "init", "rollback"} => stopped[h] = {}

\* A registered callback belongs to the host under way, which has its plugin.
InstalledInv ==
    \A c \in installed :
        /\ phase[c.host] \in {"init", "rollback", "active", "clear", "retained"}
        /\ c.by \in Host => c.by = c.host /\ c.kind \in held[c.by] /\ c.kind \notin stopped[c.by]

HostInv ==
    /\ OwnerInv /\ ConfigInv /\ RegsInv /\ KindsInv /\ RuntimeInv
    /\ InstalledInv /\ CallbacksTracked
================================================================================
