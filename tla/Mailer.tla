------------------------------- MODULE Mailer -------------------------------
(***************************************************************************)
(* Which provider a mail goes through, and what may come of it             *)
(* (runtime/src/mailer.rs), and which limits a cell runs under             *)
(* (FluxConfig::resolve_cell_execution, runtime/src/config.rs): the two    *)
(* things that a configuration decides and that can fail later.            *)
(*                                                                         *)
(* Of a mailer's settings only the provider, the API key and the SMTP host *)
(* matter to whether a mail leaves; Unset is an option that is not there.  *)
(***************************************************************************)
EXTENDS Naturals

CONSTANTS Unset, Tenants

Providers == {"console", "mailtrap", "resend", "postmark", "sendgrid", "smtp"}

\* parse_provider: what it does not know counts as not there.
ParseProvider(name) == IF name \in Providers THEN name ELSE Unset

Or(option, default) == IF option = Unset THEN default ELSE option

\* MailerConfig::from_env.  environment: FLUX__MAILER__PROVIDER (flux) or
\* MAILER_PROVIDER (name), the provider whose key is there (keyOf), the host.
FromEnv(environment) ==
    LET name == Or(environment.flux, Or(environment.name, Or(environment.keyOf, "console")))
    IN  [provider |-> Or(ParseProvider(name), "console"),
         key |-> environment.keyOf # Unset, host |-> environment.host]

\* One section over the settings it refines: MailerRegistry::from_config for
\* the default, apply_tenant_overrides for a tenant.
Override(base, section) ==
    [provider |-> Or(ParseProvider(section.provider), base.provider),
     key |-> base.key \/ section.key,
     host |-> base.host \/ section.host]

Registry(environment, mailer) ==
    LET base == Override(FromEnv(environment), mailer.default)
    IN  [default |-> base,
         tenants |-> [t \in DOMAIN mailer.tenants |-> Override(base, mailer.tenants[t])]]

\* get_config: a tenant nobody configured has the default.
GetConfig(registry, tenant) ==
    IF tenant \in DOMAIN registry.tenants THEN registry.tenants[tenant]
    ELSE registry.default

\* The four senders over HTTP: without a key they do not try; an error, or no
\* answer in ten seconds, does not say whether the mail left.
ApiOutcomes(config) == IF config.key THEN {"sent", "failed"} ELSE {"failed"}

\* send_via_smtp connects to nobody: it writes to standard output.
SmtpOutcomes(config) == IF config.host THEN {"written"} ELSE {"failed"}

\* send_transactional_email.  "written" counts as sent.
SendOutcomes(config, environment) ==
    CASE config.provider = "console" ->
           IF environment.production /\ environment.flux # "console"
           THEN {"failed"} ELSE {"written"}
      [] config.provider = "smtp" -> SmtpOutcomes(config)
      [] OTHER -> ApiOutcomes(config)

-----------------------------------------------------------------------------
(* resolve_cell_execution *)

MinTimeout == 10
MaxTimeout == 300000

\* default_profiles, and the template for a cell that names no profile.
DefaultProfiles ==
    [standard |-> [timeout |-> 10000, instances |-> 12],
     extended |-> [timeout |-> 120000, instances |-> 8],
     batch    |-> [timeout |-> 300000, instances |-> 1]]

Fallback == [timeout |-> 10000, instances |-> 16]

BaseProfile(profiles, name) ==
    IF name # Unset THEN profiles[name]
    ELSE IF "standard" \in DOMAIN profiles THEN profiles["standard"] ELSE Fallback

\* The error paths: a profile nobody defined, neither a profile nor a timeout,
\* a timeout out of bounds, no instances.
Resolves(profiles, cell) ==
    /\ cell.profile \in DOMAIN profiles \cup {Unset}
    /\ cell.profile # Unset \/ cell.timeout # Unset
    /\ LET base == BaseProfile(profiles, cell.profile)
       IN  /\ Or(cell.timeout, base.timeout) \in MinTimeout..MaxTimeout
           /\ Or(cell.instances, base.instances) > 0
=============================================================================
