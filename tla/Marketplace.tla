----------------------------- MODULE Marketplace -----------------------------
(***************************************************************************)
(* The plugin catalogue: what operators publish, review and require, what  *)
(* one user installs, disables and configures, and which versions          *)
(* therefore attach to a run of that user (plugins/marketplace.ts,         *)
(* packages/plugins/resolve.ts).                                           *)
(*                                                                         *)
(* A publication is files and rows: the artifact directory is removed and  *)
(* copied anew before the rows say anything of it, and the process that    *)
(* seeds the marketplace may be another one than the controllers that      *)
(* read.  Requests of the user check first and write later.                *)
(***************************************************************************)
EXTENDS Naturals

CONSTANTS
  Names, Versions,   \* a package is a plugin's name with a version
  Demanding,         \* plugins whose MCP configuration requires a variable
  MaxChanges         \* bound: changes by operators, the user and the registry

ASSUME MarketplaceAssumption == Demanding \subseteq Names /\ MaxChanges \in Nat

VARIABLES
  package,    \* package[p]: the row of the version and its artifact directory
  mode,       \* mode[n]: the row of plugin_settings
  own,        \* own[n]: the user's row of plugin_user_state
  variable,   \* variable[n]: the user has the variables of the plugin
  publisher,  \* where publishPlugin stands
  asked,      \* asked[n]: where the user's request about n stands
  changes

marketplaceVars == <<package, mode, own, variable, publisher, asked>>

Packages == Names \X Versions
NoVersion == "none"
Modes == {"default_off", "default_on", "required"}
NoPublication == [phase |-> "idle"]
NoRow == [override |-> "none", version |-> NoVersion]
NoRequest == [phase |-> "idle"]

PackageRow == [status : {"absent", "draft", "approved", "yanked"}, whole : BOOLEAN]
OwnRow == [override : {"none", "enabled", "disabled"}, version : Versions \cup {NoVersion}]

Publication ==
  [phase : {"cleared", "copied", "listed"}, package : Packages,
   status : {"draft", "approved"}, mode : Modes]

Request ==
  [phase : {"store", "remove", "forget"}, enable : BOOLEAN, version : Versions]

MarketplaceTypeOK ==
  /\ package \in [Packages -> PackageRow]
  /\ mode \in [Names -> Modes]
  /\ own \in [Names -> OwnRow]
  /\ variable \in [Names -> BOOLEAN]
  /\ publisher \in {NoPublication} \cup Publication
  /\ asked \in [Names -> {NoRequest} \cup Request]
  /\ changes \in 0 .. MaxChanges

\* One version of every plugin has been seeded.
MarketplaceInit ==
  /\ \E v \in Versions : package = [p \in Packages |->
       IF p[2] = v THEN [status |-> "approved", whole |-> TRUE]
                   ELSE [status |-> "absent", whole |-> FALSE]]
  /\ mode = [n \in Names |-> "default_off"]
  /\ own = [n \in Names |-> NoRow]
  /\ variable = [n \in Names |-> FALSE]
  /\ publisher = NoPublication
  /\ asked = [n \in Names |-> NoRequest]
  /\ changes = 0

Change == changes < MaxChanges /\ changes' = changes + 1

Approved == {p \in Packages : package[p].status = "approved"}

-----------------------------------------------------------------------------
(* Which versions attach. *)

IsAttached(m, override, installed) ==
  \/ m = "required"
  \/ /\ override # "disabled"
     /\ override = "enabled" \/ m = "default_on" \/ installed

\* resolveEffectivePlugins: every approved version of a plugin that is on.
EffectivePlugins(catalog, modes, rows) == {p \in catalog :
  LET row == rows[p[1]]
  IN IsAttached(modes[p[1]], row.override,
                row.version # NoVersion \/ row.override = "enabled")}

-----------------------------------------------------------------------------
(* Operators. *)

\* publishPlugin: the artifact directory goes first...
ClearArtifact ==
  /\ publisher = NoPublication
  /\ Change
  /\ \E p \in Packages, s \in {"draft", "approved"}, m \in Modes :
       /\ publisher' = [phase |-> "cleared", package |-> p, status |-> s, mode |-> m]
       /\ package' = [package EXCEPT ![p].whole = FALSE]
  /\ UNCHANGED <<mode, own, variable, asked>>

\* ...and is copied...
CopyArtifact ==
  /\ publisher.phase = "cleared"
  /\ publisher' = [publisher EXCEPT !.phase = "copied"]
  /\ package' = [package EXCEPT ![publisher.package].whole = TRUE]
  /\ UNCHANGED <<mode, own, variable, asked, changes>>

\* ...then the row of the version is inserted or takes the new status...
ListVersion ==
  /\ publisher.phase = "copied"
  /\ publisher' = [publisher EXCEPT !.phase = "listed"]
  /\ package' = [package EXCEPT ![publisher.package].status = publisher.status]
  /\ UNCHANGED <<mode, own, variable, asked, changes>>

\* ...and at last the settings of the plugin.
SettleMode ==
  /\ publisher.phase = "listed"
  /\ publisher' = NoPublication
  /\ mode' = [mode EXCEPT ![publisher.package[1]] = publisher.mode]
  /\ UNCHANGED <<package, own, variable, asked, changes>>

\* The process that publishes is stopped.
StopPublishing ==
  /\ publisher # NoPublication
  /\ publisher' = NoPublication
  /\ UNCHANGED <<package, mode, own, variable, asked, changes>>

SetReviewStatus(p, status) ==
  /\ package[p].status \notin {"absent", status}
  /\ Change
  /\ package' = [package EXCEPT ![p].status = status]
  /\ UNCHANGED <<mode, own, variable, publisher, asked>>

SetInstallMode(n, m) ==
  /\ mode[n] # m
  /\ Change
  /\ mode' = [mode EXCEPT ![n] = m]
  /\ UNCHANGED <<package, own, variable, publisher, asked>>

-----------------------------------------------------------------------------
(* The user. *)

\* findApprovedVersion: one of them, in no order.
ApprovedVersions(n) == {p[2] : p \in {q \in Approved : q[1] = n}}

\* A request that requireApprovedPlugin lets pass.
Ask(n, phase, enable) ==
  /\ asked[n] = NoRequest
  /\ Change
  /\ \E v \in ApprovedVersions(n) : asked' = [asked EXCEPT ![n] =
       [phase |-> phase, enable |-> enable, version |-> v]]
  /\ enable \/ mode[n] # "required"

\* installPluginForUser up to its write.
AskInstall(n, enable) ==
  /\ Ask(n, "store", enable)
  /\ UNCHANGED <<package, mode, own, variable, publisher>>

StoreInstall(n) ==
  /\ asked[n].phase = "store"
  /\ own' = [own EXCEPT ![n] =
       [override |-> IF asked[n].enable THEN "enabled" ELSE "disabled",
        version |-> asked[n].version]]
  /\ asked' = [asked EXCEPT ![n] = NoRequest]
  /\ UNCHANGED <<package, mode, variable, publisher, changes>>

\* uninstallPluginForUser up to its first write.
AskUninstall(n) ==
  /\ Ask(n, "remove", FALSE)
  /\ UNCHANGED <<package, mode, own, variable, publisher>>

\* Its tokens and variables...
RemoveVariables(n) ==
  /\ asked[n].phase = "remove"
  /\ variable' = [variable EXCEPT ![n] = FALSE]
  /\ asked' = [asked EXCEPT ![n].phase = "forget"]
  /\ UNCHANGED <<package, mode, own, publisher, changes>>

\* ...then the row itself.
ForgetInstall(n) ==
  /\ asked[n].phase = "forget"
  /\ own' = [own EXCEPT ![n] = NoRow]
  /\ asked' = [asked EXCEPT ![n] = NoRequest]
  /\ UNCHANGED <<package, mode, variable, publisher, changes>>

\* setUserVariables, or a connection made (OAuthConnections).
Configure(n) ==
  /\ ~variable[n]
  /\ Change
  /\ variable' = [variable EXCEPT ![n] = TRUE]
  /\ UNCHANGED <<package, mode, own, publisher, asked>>

MarketplaceNext ==
  \/ ClearArtifact \/ CopyArtifact \/ ListVersion \/ SettleMode \/ StopPublishing
  \/ \E p \in Packages, s \in {"draft", "approved", "yanked"} : SetReviewStatus(p, s)
  \/ \E n \in Names, m \in Modes : SetInstallMode(n, m)
  \/ \E n \in Names, enable \in BOOLEAN : AskInstall(n, enable)
  \/ \E n \in Names :
       StoreInstall(n) \/ AskUninstall(n) \/ RemoveVariables(n) \/ ForgetInstall(n)
       \/ Configure(n)
=============================================================================
