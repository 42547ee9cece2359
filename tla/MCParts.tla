------------------------------- MODULE MCParts -------------------------------
(* EventLog, DeviceLocks, PolicySync, AgentUpdate, Retirement, Presence and  *)
(* UsageSlices for TLC: one behaviour is a behaviour of one of them, the     *)
(* others standing still.                                                    *)
EXTENDS EventLog, DeviceLocks, PolicySync, AgentUpdate, Retirement, Presence, UsageSlices

VARIABLE part

Parts == {"log", "locks", "policy", "update", "retire", "presence", "slices"}
partVars ==
  <<part, logVars, deviceVars, syncVars, updateVars, retireVars, presenceVars, sliceVars>>

\* Of the builds 1 to 6; each number but the first is broken, or newer.
MCVersion == <<1, 1, 2, 1, 2, 1>>

\* Three slices, of four lookups.
MCSliceOf == <<1, 2, 1, 3>>

PartsInit ==
  /\ part \in Parts
  /\ LogInit /\ DeviceInit /\ SyncInit /\ UpdateInit /\ RetireInit /\ PresenceInit
  /\ SlicesInit

\* Of the part that runs only its own variables change.
Only(name, others) == part = name /\ UNCHANGED others

PartsNext ==
  /\ part' = part
  /\ \/ LogNext
        /\ Only("log", <<deviceVars, syncVars, updateVars, retireVars, presenceVars, sliceVars>>)
     \/ DeviceNext
        /\ Only("locks", <<logVars, syncVars, updateVars, retireVars, presenceVars, sliceVars>>)
     \/ SyncNext
        /\ Only("policy", <<logVars, deviceVars, updateVars, retireVars, presenceVars, sliceVars>>)
     \/ UpdateNext
        /\ Only("update", <<logVars, deviceVars, syncVars, retireVars, presenceVars, sliceVars>>)
     \/ RetireNext
        /\ Only("retire", <<logVars, deviceVars, syncVars, updateVars, presenceVars, sliceVars>>)
     \/ PresenceNext
        /\ Only("presence", <<logVars, deviceVars, syncVars, updateVars, retireVars, sliceVars>>)
     \/ SlicesNext
        /\ Only("slices", <<logVars, deviceVars, syncVars, updateVars, retireVars, presenceVars>>)

\* A part that stands still asks for nothing: its fair actions are disabled,
\* or change nothing, in its initial state (the agent that updates is yet to be
\* started, the computer that is shown was just heard, the log is read).
PartsSpec ==
  /\ PartsInit /\ [][PartsNext]_partVars
  /\ LogFair /\ DeviceFair /\ SyncFair /\ UpdateFair /\ RetireFair /\ PresenceFair
  /\ SlicesFair

=============================================================================
