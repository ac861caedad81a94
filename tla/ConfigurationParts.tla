------------------------- MODULE ConfigurationParts -------------------------
(* The configuration and what is done with it, in three parts that share no  *)
(* state: the authority of the configuration, the deployments before there   *)
(* was an authority, and a tab of the panel.  A behaviour follows one of     *)
(* them while the others rest in one initial state.                          *)
EXTENDS ConfigAuthority

CONSTANTS Targets, AccountOf, Installed, MaxSha, MaxUuid, StaleReads,  \* of LegacyDeploy
          MaxMine, MaxOthers, MaxRereads                               \* of Panel
VARIABLES part,
          table, code, ledger, uuids, head, minted, job, owed, missed,
          form, domainRev, content, done, post, page, reads, made, rereads, shown

legacyVars == <<table, code, ledger, uuids, head, minted, job, owed, missed>>
panelVars == <<form, domainRev, content, done, post, page, reads, made, rereads, shown>>
partsVars == <<part, vars, legacyVars, panelVars>>

Legacy == INSTANCE LegacyDeploy WITH override <- uuids
Tab == INSTANCE Panel WITH rev <- domainRev

ASSUME TargetsAssumption == Installed \subseteq Targets /\ StaleReads \in BOOLEAN
ASSUME PartBoundsAssumption ==
  /\ MaxSha \in Nat \ {0} /\ MaxUuid \in Nat
  /\ MaxMine \in Nat /\ MaxOthers \in Nat /\ MaxRereads \in Nat
ASSUME NoneIsNoRecord ==
  /\ None \notin [e : Nat, conflict : BOOLEAN]
  /\ None \notin [how : {"form", "removal", "merge", "retry"}, base : Nat,
                  body : SUBSET (Tab!Mine \union Tab!Others), again : BOOLEAN]

PartsInit == /\ part \in {"authority", "legacy", "panel"}
             /\ Init /\ Legacy!Init /\ Tab!Init
             /\ part # "authority" => ~observing /\ \A a \in Accounts : accounts[a].cred = 0
             /\ part # "legacy" => ledger = Legacy!Empty
             /\ part # "panel" => form = "accounts"
NextAuthority == part = "authority" /\ Next /\ UNCHANGED <<part, legacyVars, panelVars>>
NextLegacy == part = "legacy" /\ Legacy!Next /\ UNCHANGED <<part, vars, panelVars>>
NextPanel == part = "panel" /\ Tab!Next /\ UNCHANGED <<part, vars, legacyVars>>
PartsSpec == PartsInit /\ [][NextAuthority \/ NextLegacy \/ NextPanel]_partsVars

(* LegacyDeploy.NoWorkerIsForgotten: the next update covers every worker    *)
(* that is behind or failed, but one whose upload was dropped unread        *)
(* (auto-update.ts, deploy-utils.ts).                                       *)
NoWorkerIsForgotten == Legacy!NoWorkerIsForgotten
(* LegacyDeploy.RotationSticks: no update undoes a rotation of the fuse,    *)
(* but for the delay of the store within one run (auto-update.ts).          *)
RotationSticks == Legacy!RotationSticks
(* Panel.NothingUnseenIsLost: a save takes away only what the tab showed    *)
(* (config-protocol.js).                                                    *)
NothingUnseenIsLost == Tab!NothingUnseenIsLost
=============================================================================
