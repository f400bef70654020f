------------------------------- MODULE MCParts -------------------------------
(***************************************************************************)
(* Model checking of the parts that share no state with one another, in    *)
(* one run: part names the one that starts from its own Init and moves.    *)
(***************************************************************************)
EXTENDS DatabaseFile, SecretStore, SystemAlerts, SharedFiles,
        LanguageServers, UsageImport, ActivityViews, Predictions,
        Subscriptions, RateLimiter

CONSTANTS a, b, h, t   \* two accounts, two machines

VARIABLE part

PartNames == {"schema", "secrets", "alerts", "polling", "servers", "import",
              "activity", "forecasts", "advice", "subscriptions", "limits", "bridge",
              "restore"}

\* Times of a whole second and not, from a midnight on.
Entries(k) ==
  {e \in [kind : {k}, mail : {"x", NoMail}, at : {0, 2, 3}, form : TextForms, dated : {TRUE},
          from : {0}] :
     e.form # "utc" => e.mail = "x"}

\* Files from elsewhere: an account-less subscription and two rows of a kind.
MCWrittenFiles ==
  UNION {{[accounts |-> <<>>, rows |-> <<r, s>>, own |-> FALSE,
           subs |-> <<[platform |-> "platform", mail |-> "x", cost |-> 1]>>] :
            r \in Entries(k), s \in Entries(k)} : k \in Kinds}

MCZones == {-8, 0, 8}

PartsInit ==
  /\ part \in PartNames
  /\ IF part = "schema" THEN SchemaInit ELSE SchemaNew /\ SchemaIdle
  /\ IF part = "secrets" THEN SecretInit ELSE SecretNew /\ SecretIdle
  /\ AlertsInit
  /\ PollingInit
  /\ IF part = "servers" THEN LSInit ELSE LSAtRest /\ login = [p \in Servers |-> a]
  /\ ImportNew
  /\ IF part = "activity" THEN ActivityInit ELSE activity = NoActivity
  /\ IF part = "forecasts" THEN ForecastInit ELSE usage = NoUsage
  /\ IF part = "advice" THEN AdviceInit ELSE fleet = NoFleet
  /\ IF part = "subscriptions" THEN LedgerInit ELSE LedgerNew /\ LedgerIdle
  /\ LimiterInit
  /\ BridgeInit
  /\ IF part = "bridge" THEN installed => ~settings.own /\ (settings.more => settings.env = "absent")
                        ELSE ~installed
  /\ RestoreInit /\ (part # "restore" => backup.valid /\ ~Is(At("wal")))

PartsNext ==
  /\ UNCHANGED <<part, activity, usage, fleet>>
  /\ IF part = "schema" THEN SchemaNext ELSE UNCHANGED schemaVars
  /\ IF part = "secrets" THEN SecretNext ELSE UNCHANGED secretVars
  /\ IF part = "alerts" THEN AlertsNext ELSE UNCHANGED alertVars
  /\ IF part = "polling" THEN PollingNext ELSE UNCHANGED pollVars
  /\ IF part = "servers" THEN LSNext ELSE UNCHANGED lsVars
  /\ IF part = "import" THEN ImportNext ELSE UNCHANGED importVars
  /\ IF part = "subscriptions" THEN LedgerNext ELSE UNCHANGED ledgerVars
  /\ IF part = "limits" THEN LimiterNext ELSE UNCHANGED limiterVars
  /\ IF part = "bridge" THEN BridgeNext ELSE UNCHANGED bridgeVars
  /\ IF part = "restore" THEN RestoreNext ELSE UNCHANGED restoreVars
=============================================================================
