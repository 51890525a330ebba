------------------------------ MODULE SsoDemo -------------------------------
(* Single sign-on over SAML: one browser, the apps mock-docs and             *)
(* mock-dashboard (two instances of SamlSp), and the realm they trust.       *)
EXTENDS Naturals, FiniteSets

CONSTANTS User, NoUser, Uncached, NoResponse,
    MaxImport       \* bound on imports of the realm after the first

ASSUME ImportAssumption == MaxImport \in Nat

VARIABLES realm, jar, docsCert, docsTab, dashboardCert, dashboardTab

vars == <<realm, jar, docsCert, docsTab, dashboardCert, dashboardTab>>

Docs == INSTANCE SamlSp WITH Me <- "mock-docs", cert <- docsCert, tab <- docsTab
Dashboard == INSTANCE SamlSp WITH
    Me <- "mock-dashboard", cert <- dashboardCert, tab <- dashboardTab

Key == 0..MaxImport

\* What Keycloak may have asserted.
Assertion == [user : User, key : Key, single : BOOLEAN]

\* A tab that has no response can be told from one that has.
ASSUME ResponseAssumption == NoResponse \notin Assertion

Tab == [at : Docs!Place, host : Docs!Host, response : {NoResponse} \cup Assertion,
        known : SUBSET User]
Cookie == [host : Docs!Host, name : {Docs!Cookie, Dashboard!Cookie},
           signedBy : {"mock-docs", "mock-dashboard"}, user : User]

TypeOK ==
    /\ realm \in [up : BOOLEAN, key : Key, single : BOOLEAN, user : User \cup {NoUser}]
    /\ jar \subseteq Cookie
    /\ \A c, d \in jar : c.host = d.host /\ c.name = d.name => c = d
    /\ {docsCert, dashboardCert} \subseteq Key \cup {Uncached}
    /\ {docsTab, dashboardTab} \subseteq Tab

Init ==
    /\ realm = [up |-> TRUE, key |-> 0, single |-> FALSE, user |-> NoUser]
    /\ jar = {}
    /\ docsCert = Uncached /\ dashboardCert = Uncached
    /\ docsTab = Docs!TabInit /\ dashboardTab = Docs!TabInit

dashboardVars == <<dashboardCert, dashboardTab>>
docsVars == <<docsCert, docsTab>>
appVars == <<jar, docsVars, dashboardVars>>

DocsFollows == Docs!Follow /\ UNCHANGED dashboardVars

DashboardIndex == Dashboard!Index /\ UNCHANGED docsVars
DashboardLogin == Dashboard!SamlLogin /\ UNCHANGED docsVars
DashboardAcs == Dashboard!SamlAcs /\ UNCHANGED docsVars
DashboardMetadata == Dashboard!SamlMetadata /\ UNCHANGED docsVars
DashboardLogout == Dashboard!Logout /\ UNCHANGED docsVars
DashboardSso == Dashboard!Sso /\ UNCHANGED docsVars
DashboardFollows == DashboardIndex \/ DashboardLogin \/ DashboardAcs \/ DashboardSso

-----------------------------------------------------------------------------

\* keycloak-setup.py gives the realm's assertions their single Role attribute.
RolesFixed ==
    /\ realm.up /\ ~realm.single
    /\ realm' = [realm EXCEPT !.single = TRUE]
    /\ UNCHANGED appVars

\* The realm's session ends: an idle timeout, or a logout at Keycloak.
RealmSessionEnds ==
    /\ realm.user # NoUser
    /\ realm' = [realm EXCEPT !.user = NoUser]
    /\ UNCHANGED appVars

\* Keycloak stops, or the realm is deleted.  A login form it has served is dead.
RealmStops ==
    /\ realm.up
    /\ realm' = [realm EXCEPT !.up = FALSE]
    /\ docsTab' = IF docsTab.at = "prompt" THEN [docsTab EXCEPT !.at = "error"] ELSE docsTab
    /\ dashboardTab' = IF dashboardTab.at = "prompt"
                       THEN [dashboardTab EXCEPT !.at = "error"] ELSE dashboardTab
    /\ UNCHANGED <<jar, docsCert, dashboardCert>>

RealmReturns ==
    /\ ~realm.up
    /\ realm' = [realm EXCEPT !.up = TRUE]
    /\ UNCHANGED appVars

\* The volume is gone, or the realm was deleted: it is imported once more, with a
\* new key, Keycloak's own role_list and no sessions (SETUP.md:89-93).
RealmImported ==
    /\ ~realm.up
    /\ realm.key < MaxImport
    /\ realm' = [up |-> TRUE, key |-> realm.key + 1, single |-> FALSE, user |-> NoUser]
    /\ UNCHANGED appVars

Next ==
    \/ DocsFollows
    \/ Docs!Act /\ UNCHANGED dashboardVars
    \/ DashboardFollows
    \/ (Dashboard!Visit \/ Dashboard!PostAgain \/ Dashboard!Credentials
        \/ Dashboard!Restart) /\ UNCHANGED docsVars
    \/ DashboardMetadata \/ DashboardLogout
    \/ RolesFixed \/ RealmSessionEnds \/ RealmStops \/ RealmReturns \/ RealmImported

\* A browser follows redirects, and Keycloak and the apps answer or fail.
Spec == Init /\ [][Next]_vars /\ WF_vars(DocsFollows) /\ WF_vars(DashboardFollows)

-----------------------------------------------------------------------------

\* Although the apps share a cookie jar, and users and imports of the realm come
\* and go, a page is shown in a session of the app's own, of somebody whom Keycloak
\* has asserted to this very app (app.py:39-44; SETUP.md:528-533).
PageMeansAsserted ==
    /\ docsTab.at = "page" =>
          \E c \in Docs!Session(docsTab.host) : c.user \in docsTab.known
    /\ dashboardTab.at = "page" =>
          \E c \in Dashboard!Session(dashboardTab.host) : c.user \in dashboardTab.known

\* What happens in one app leaves the session of the other alone: a session
\* changes by its own app's assertion consumer or logout (app.py:39-44, 224-227).
SessionsIndependent ==
    [][/\ Docs!Session("localhost")' # Docs!Session("localhost")
             => docsTab.at \in {"acs", "page"} /\ docsTab'.at = "index"
       /\ Dashboard!Session("localhost")' # Dashboard!Session("localhost")
             => dashboardTab.at \in {"acs", "page"} /\ dashboardTab'.at = "index"]_vars

\* No visit, by whatever name of the host, is bounced around for ever between the
\* app and Keycloak: the tab comes to rest (app.py:202-206).
NoLoop ==
    /\ docsTab.at \notin Docs!Rest ~> docsTab.at \in Docs!Rest
    /\ dashboardTab.at \notin Docs!Rest ~> dashboardTab.at \in Docs!Rest

Provisioned == realm.up /\ realm.single
Fresh(cert) == cert \in {Uncached, realm.key}

\* While the browser has a session with the realm, a visit to either app ends on
\* its page without a prompt, after a logout from the app too (app.py:224-227;
\* SETUP.md:503-526), unless the app holds the certificate of an earlier realm.
SilentSignOn ==
    /\ [](docsTab.at = "index" /\ [](Provisioned /\ realm.user # NoUser /\ Fresh(docsCert))
             => <>(docsTab.at = "page"))
    /\ [](dashboardTab.at = "index"
             /\ [](Provisioned /\ realm.user # NoUser /\ Fresh(dashboardCert))
             => <>(dashboardTab.at = "page"))

\* "Each app fetches the realm's signing certificate at runtime from [...], because
\* that key is regenerated every time the realm is imported and so cannot be baked
\* into the image" (SETUP.md:498-502): with the realm up and provisioned, signing on
\* works, the realm being imported anew or not.
SurvivesImport ==
    [](docsTab.at = "index" /\ [](Provisioned /\ realm.user # NoUser)
         => <>(docsTab.at = "page"))
=============================================================================
