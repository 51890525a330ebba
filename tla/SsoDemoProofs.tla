---------------------------- MODULE SsoDemoProofs ---------------------------
(* Two SAML apps in one browser, for any users and any number of imports of  *)
(* the realm.  A step of an app does one of a few things to its own tab and  *)
(* its own cookies (AppStep); what is proved of the pair rests on that alone. *)
EXTENDS SsoDemo, TLAPS

App == {"mock-docs", "mock-dashboard"}

(* The cookie of a session of an app's, by one name of the host.             *)
Mine(c, me, host) == c.host = host /\ c.name = me /\ c.signedBy = me

(* A tab that is posting holds a response, which like every session of the   *)
(* app is about somebody whom Keycloak has asserted to it; and where a page  *)
(* is shown there is such a session.                                         *)
AppInv(cookies, me, tab) ==
    /\ tab.at = "acs" => tab.response # NoResponse
    /\ tab.response # NoResponse => tab.response.user \in tab.known
    /\ \A c \in cookies : c.signedBy = me => c.user \in tab.known
    /\ tab.at = "page" => \E c \in cookies : Mine(c, me, tab.host)

IInv ==
    /\ TypeOK
    /\ AppInv(jar, "mock-docs", docsTab)
    /\ AppInv(jar, "mock-dashboard", dashboardTab)

Realm == [up : BOOLEAN, key : Key, single : BOOLEAN, user : User \cup {NoUser}]

(* The jar without, and the cookie of, a session of an app.                  *)
Cleared(me, host) == {c \in jar : c.host # host \/ c.name # me}
SignedIn(me, user) == [host |-> "localhost", name |-> me, signedBy |-> me, user |-> user]

(* What a step of an app, or of its tab, may do: the jar changes only when   *)
(* an assertion was consumed or a page's visitor logs out, and then only the *)
(* cookie of this app.                                                       *)
AppStep(me, cert, tab, cert1, tab1) ==
    /\ cert1 \in {cert, Uncached, realm.key}
    /\ tab1 \in Tab
    /\ realm' \in Realm
    /\ tab.known \subseteq tab1.known
    /\ tab1.response = tab.response \/ tab1.response.user \in tab1.known
    /\ tab1.at = "acs" => tab1.response # NoResponse
    /\ tab1.at = "page" =>
          \/ tab.at = "page" /\ tab1.host = tab.host
          \/ \E c \in jar : Mine(c, me, tab1.host)
    /\ \/ jar' = jar
       \/ /\ tab.at \in {"acs", "page"} /\ tab1.at = "index"
          /\ \E host \in Docs!Host : jar' = Cleared(me, host)
       \/ /\ tab.at \in {"acs", "page"} /\ tab1.at = "index"
          /\ \E user \in User \cap tab.known :
                jar' = Cleared(me, "localhost") \cup {SignedIn(me, user)}

(* Keycloak's answer sets the tab on its way to the assertion consumer.      *)
LEMMA DocsAsserts ==
    ASSUME docsTab \in Tab, realm \in Realm, NEW user \in User, Docs!Asserts(user)
    PROVE  /\ docsTab' \in Tab /\ docsTab'.at = "acs" /\ docsTab'.response # NoResponse
           /\ docsTab'.response.user \in docsTab'.known /\ docsTab.known \subseteq docsTab'.known
  <1> DEFINE response == [user |-> user, key |-> realm.key, single |-> realm.single]
             known == docsTab.known \cup {user}
  <1>1. response \in Assertion /\ response.user = user /\ known \in SUBSET User /\ user \in known
    BY DEF Realm, Assertion, Tab
  <1>2. docsTab' = [docsTab EXCEPT !.at = "acs", !.response = response, !.known = known]
    BY DEF Docs!Asserts, Tab
  <1>3. docsTab.known \subseteq known
    OBVIOUS
  <1> HIDE DEF response, known
  <1>4. docsTab' \in Tab
    BY <1>1, <1>2 DEF Tab, Docs!Place
  <1>5. docsTab'.at = "acs"
    BY <1>2 DEF Tab
  <1>6. docsTab'.response = response
    BY <1>2 DEF Tab
  <1>7. docsTab'.known = known
    BY <1>2 DEF Tab
  <1> QED BY <1>1, <1>3, <1>4, <1>5, <1>6, <1>7, ResponseAssumption

(* Every step of mock-docs, and of its tab, is one an app may take.          *)
LEMMA DocsStep ==
    ASSUME IInv, Docs!Follow \/ Docs!Act
    PROVE  AppStep("mock-docs", docsCert, docsTab, docsCert', docsTab')
  <1> DEFINE Goal == AppStep("mock-docs", docsCert, docsTab, docsCert', docsTab')
  <1>0. /\ docsTab \in Tab /\ realm \in Realm
        /\ docsTab.at = "acs" => docsTab.response # NoResponse
        /\ docsTab.response # NoResponse => docsTab.response.user \in docsTab.known
    BY DEF IInv, TypeOK, AppInv, Realm
  <1> USE DEF Docs!Goes, Docs!Host, Docs!BaseHost, Docs!Place, Docs!Rest
  <1>1. ASSUME Docs!Index PROVE Goal
    <2>1. CASE Docs!Session(docsTab.host) = {}
      BY <1>0, <1>1, <2>1 DEF Docs!Index, AppStep, Tab
    <2>2. CASE Docs!Session(docsTab.host) # {}
      <3>1. \E c \in jar : Mine(c, "mock-docs", docsTab.host)
        BY <2>2 DEF Docs!Session, Docs!Cookie, Mine
      <3> QED BY <1>0, <1>1, <2>2, <3>1 DEF Docs!Index, AppStep, Tab
    <2> QED BY <2>1, <2>2
  <1>2. ASSUME Docs!SamlLogin PROVE Goal
    BY <1>0, <1>2 DEF Docs!SamlLogin, Docs!CertRead, Docs!CertMissing, AppStep, Tab
  <1>3. ASSUME Docs!SamlAcs PROVE Goal
    <2>1. docsTab.at = "acs" /\ realm' = realm
      BY <1>3 DEF Docs!SamlAcs
    <2>2. docsCert' \in {docsCert, realm.key}
      BY <1>3 DEF Docs!SamlAcs, Docs!CertRead, Docs!CertMissing
    <2>3. CASE docsTab' = [docsTab EXCEPT !.at = "error"] /\ jar' = jar
      BY <1>0, <2>1, <2>2, <2>3 DEF AppStep, Tab
    <2>4. CASE /\ jar' = Docs!Others("localhost") \cup {SignedIn("mock-docs", docsTab.response.user)}
               /\ docsTab' = [docsTab EXCEPT !.at = "index", !.host = Docs!Landing(docsTab.host)]
      <3>1. docsTab.response.user \in User \cap docsTab.known
        BY <1>0, <2>1 DEF Tab, Assertion
      <3>2. Docs!Others("localhost") = Cleared("mock-docs", "localhost")
        BY DEF Docs!Others, Docs!Cookie, Cleared
      <3>3. Docs!Landing(docsTab.host) = "localhost"
        BY DEF Docs!Landing
      <3>4. /\ docsTab' \in Tab /\ docsTab'.at = "index"
            /\ docsTab'.response = docsTab.response /\ docsTab'.known = docsTab.known
        BY <1>0, <2>4, <3>3 DEF Tab
      <3> QED BY <1>0, <2>1, <2>2, <2>4, <3>1, <3>2, <3>4 DEF AppStep
    <2> QED BY <1>3, <2>3, <2>4 DEF Docs!SamlAcs, Docs!Cookie, SignedIn
  <1>4. ASSUME Docs!Sso PROVE Goal
    <2>1. docsTab.at = "sso" /\ realm' = realm /\ jar' = jar /\ docsCert' = docsCert
      BY <1>4 DEF Docs!Sso
    <2>2. CASE docsTab' = [docsTab EXCEPT !.at = "error"] \/ docsTab' = [docsTab EXCEPT !.at = "prompt"]
      BY <1>0, <2>1, <2>2 DEF AppStep, Tab
    <2>3. CASE realm.user # NoUser /\ Docs!Asserts(realm.user)
      <3>1. realm.user \in User
        BY <1>0, <2>3 DEF Realm
      <3> QED BY <1>0, <2>1, <2>3, <3>1, DocsAsserts DEF AppStep
    <2> QED BY <1>4, <2>2, <2>3 DEF Docs!Sso
  <1>5. ASSUME Docs!Visit PROVE Goal
    BY <1>0, <1>5 DEF Docs!Visit, AppStep, Tab
  <1>6. ASSUME Docs!PostAgain PROVE Goal
    BY <1>0, <1>6 DEF Docs!PostAgain, AppStep, Tab
  <1>7. ASSUME Docs!Credentials PROVE Goal
    <2>1. PICK user \in User : Docs!Asserts(user) /\ realm' = [realm EXCEPT !.user = user]
      BY <1>0, <1>7 DEF Docs!Credentials, Realm
    <2>2. realm' \in Realm /\ jar' = jar /\ docsCert' = docsCert
      BY <1>0, <1>7, <2>1 DEF Docs!Credentials, Realm
    <2> QED BY <1>0, <2>1, <2>2, DocsAsserts DEF AppStep
  <1>8. ASSUME Docs!Logout PROVE Goal
    <2>1. Docs!Others(docsTab.host) = Cleared("mock-docs", docsTab.host)
      BY DEF Docs!Others, Docs!Cookie, Cleared
    <2> QED BY <1>0, <1>8, <2>1 DEF Docs!Logout, AppStep, Tab
  <1>9. ASSUME Docs!SamlMetadata \/ Docs!Restart PROVE Goal
    <2>1. /\ docsCert' \in {docsCert, Uncached, realm.key}
          /\ docsTab' = docsTab /\ jar' = jar /\ realm' = realm
      BY <1>9 DEF Docs!SamlMetadata, Docs!CertRead, Docs!Restart
    <2> QED BY <1>0, <2>1 DEF AppStep
  <1> QED
    BY <1>1, <1>2, <1>3, <1>4, <1>5, <1>6, <1>7, <1>8, <1>9 DEF Docs!Follow, Docs!Act

(* The same of mock-dashboard: its tab and an assertion of Keycloak's.       *)
LEMMA DashboardAsserts ==
    ASSUME dashboardTab \in Tab, realm \in Realm, NEW user \in User, Dashboard!Asserts(user)
    PROVE  /\ dashboardTab' \in Tab /\ dashboardTab'.at = "acs" /\ dashboardTab'.response # NoResponse
           /\ dashboardTab'.response.user \in dashboardTab'.known /\ dashboardTab.known \subseteq dashboardTab'.known
  <1> DEFINE response == [user |-> user, key |-> realm.key, single |-> realm.single]
             known == dashboardTab.known \cup {user}
  <1>1. response \in Assertion /\ response.user = user /\ known \in SUBSET User /\ user \in known
    BY DEF Realm, Assertion, Tab
  <1>2. dashboardTab' = [dashboardTab EXCEPT !.at = "acs", !.response = response, !.known = known]
    BY DEF Dashboard!Asserts, Tab
  <1>3. dashboardTab.known \subseteq known
    OBVIOUS
  <1> HIDE DEF response, known
  <1>4. dashboardTab' \in Tab
    BY <1>1, <1>2 DEF Tab, Docs!Place
  <1>5. dashboardTab'.at = "acs"
    BY <1>2 DEF Tab
  <1>6. dashboardTab'.response = response
    BY <1>2 DEF Tab
  <1>7. dashboardTab'.known = known
    BY <1>2 DEF Tab
  <1> QED BY <1>1, <1>3, <1>4, <1>5, <1>6, <1>7, ResponseAssumption

(* Every step of mock-dashboard, and of its tab, is one an app may take.          *)
LEMMA DashboardStep ==
    ASSUME IInv, Dashboard!Follow \/ Dashboard!Act
    PROVE  AppStep("mock-dashboard", dashboardCert, dashboardTab, dashboardCert', dashboardTab')
  <1> DEFINE Goal == AppStep("mock-dashboard", dashboardCert, dashboardTab, dashboardCert', dashboardTab')
  <1>0. /\ dashboardTab \in Tab /\ realm \in Realm
        /\ dashboardTab.at = "acs" => dashboardTab.response # NoResponse
        /\ dashboardTab.response # NoResponse => dashboardTab.response.user \in dashboardTab.known
    BY DEF IInv, TypeOK, AppInv, Realm
  <1> USE DEF Docs!Host, Docs!Place, Docs!Rest, Dashboard!Goes,
              Dashboard!Host, Dashboard!BaseHost, Dashboard!Place, Dashboard!Rest
  <1>1. ASSUME Dashboard!Index PROVE Goal
    <2>1. CASE Dashboard!Session(dashboardTab.host) = {}
      BY <1>0, <1>1, <2>1 DEF Dashboard!Index, AppStep, Tab
    <2>2. CASE Dashboard!Session(dashboardTab.host) # {}
      <3>1. \E c \in jar : Mine(c, "mock-dashboard", dashboardTab.host)
        BY <2>2 DEF Dashboard!Session, Dashboard!Cookie, Mine
      <3> QED BY <1>0, <1>1, <2>2, <3>1 DEF Dashboard!Index, AppStep, Tab
    <2> QED BY <2>1, <2>2
  <1>2. ASSUME Dashboard!SamlLogin PROVE Goal
    BY <1>0, <1>2 DEF Dashboard!SamlLogin, Dashboard!CertRead, Dashboard!CertMissing, AppStep, Tab
  <1>3. ASSUME Dashboard!SamlAcs PROVE Goal
    <2>1. dashboardTab.at = "acs" /\ realm' = realm
      BY <1>3 DEF Dashboard!SamlAcs
    <2>2. dashboardCert' \in {dashboardCert, realm.key}
      BY <1>3 DEF Dashboard!SamlAcs, Dashboard!CertRead, Dashboard!CertMissing
    <2>3. CASE dashboardTab' = [dashboardTab EXCEPT !.at = "error"] /\ jar' = jar
      BY <1>0, <2>1, <2>2, <2>3 DEF AppStep, Tab
    <2>4. CASE /\ jar' = Dashboard!Others("localhost") \cup {SignedIn("mock-dashboard", dashboardTab.response.user)}
               /\ dashboardTab' = [dashboardTab EXCEPT !.at = "index", !.host = Dashboard!Landing(dashboardTab.host)]
      <3>1. dashboardTab.response.user \in User \cap dashboardTab.known
        BY <1>0, <2>1 DEF Tab, Assertion
      <3>2. Dashboard!Others("localhost") = Cleared("mock-dashboard", "localhost")
        BY DEF Dashboard!Others, Dashboard!Cookie, Cleared
      <3>3. Dashboard!Landing(dashboardTab.host) = "localhost"
        BY DEF Dashboard!Landing
      <3>4. /\ dashboardTab' \in Tab /\ dashboardTab'.at = "index"
            /\ dashboardTab'.response = dashboardTab.response /\ dashboardTab'.known = dashboardTab.known
        BY <1>0, <2>4, <3>3 DEF Tab
      <3> QED BY <1>0, <2>1, <2>2, <2>4, <3>1, <3>2, <3>4 DEF AppStep
    <2> QED BY <1>3, <2>3, <2>4 DEF Dashboard!SamlAcs, Dashboard!Cookie, SignedIn
  <1>4. ASSUME Dashboard!Sso PROVE Goal
    <2>1. dashboardTab.at = "sso" /\ realm' = realm /\ jar' = jar /\ dashboardCert' = dashboardCert
      BY <1>4 DEF Dashboard!Sso
    <2>2. CASE dashboardTab' = [dashboardTab EXCEPT !.at = "error"] \/ dashboardTab' = [dashboardTab EXCEPT !.at = "prompt"]
      BY <1>0, <2>1, <2>2 DEF AppStep, Tab
    <2>3. CASE realm.user # NoUser /\ Dashboard!Asserts(realm.user)
      <3>1. realm.user \in User
        BY <1>0, <2>3 DEF Realm
      <3> QED BY <1>0, <2>1, <2>3, <3>1, DashboardAsserts DEF AppStep
    <2> QED BY <1>4, <2>2, <2>3 DEF Dashboard!Sso
  <1>5. ASSUME Dashboard!Visit PROVE Goal
    BY <1>0, <1>5 DEF Dashboard!Visit, AppStep, Tab
  <1>6. ASSUME Dashboard!PostAgain PROVE Goal
    BY <1>0, <1>6 DEF Dashboard!PostAgain, AppStep, Tab
  <1>7. ASSUME Dashboard!Credentials PROVE Goal
    <2>1. PICK user \in User : Dashboard!Asserts(user) /\ realm' = [realm EXCEPT !.user = user]
      BY <1>0, <1>7 DEF Dashboard!Credentials, Realm
    <2>2. realm' \in Realm /\ jar' = jar /\ dashboardCert' = dashboardCert
      BY <1>0, <1>7, <2>1 DEF Dashboard!Credentials, Realm
    <2> QED BY <1>0, <2>1, <2>2, DashboardAsserts DEF AppStep
  <1>8. ASSUME Dashboard!Logout PROVE Goal
    <2>1. Dashboard!Others(dashboardTab.host) = Cleared("mock-dashboard", dashboardTab.host)
      BY DEF Dashboard!Others, Dashboard!Cookie, Cleared
    <2> QED BY <1>0, <1>8, <2>1 DEF Dashboard!Logout, AppStep, Tab
  <1>9. ASSUME Dashboard!SamlMetadata \/ Dashboard!Restart PROVE Goal
    <2>1. /\ dashboardCert' \in {dashboardCert, Uncached, realm.key}
          /\ dashboardTab' = dashboardTab /\ jar' = jar /\ realm' = realm
      BY <1>9 DEF Dashboard!SamlMetadata, Dashboard!CertRead, Dashboard!Restart
    <2> QED BY <1>0, <2>1 DEF AppStep
  <1> QED
    BY <1>1, <1>2, <1>3, <1>4, <1>5, <1>6, <1>7, <1>8, <1>9 DEF Dashboard!Follow, Dashboard!Act

(* What a step of one app leaves of the invariant and of the other app.      *)
LEMMA OneApp ==
    ASSUME IInv, NEW me \in App, NEW other \in App, me # other,
           NEW cert \in Key \cup {Uncached}, NEW cert1, NEW tab \in Tab, NEW tab1,
           NEW otherTab,
           AppInv(jar, me, tab), AppInv(jar, other, otherTab),
           AppStep(me, cert, tab, cert1, tab1)
    PROVE  /\ cert1 \in Key \cup {Uncached} /\ tab1 \in Tab /\ realm' \in Realm
           /\ jar' \subseteq Cookie
           /\ \A c, d \in jar' : c.host = d.host /\ c.name = d.name => c = d
           /\ AppInv(jar', me, tab1) /\ AppInv(jar', other, otherTab)
  <1>1. /\ realm.key \in Key /\ jar \subseteq Cookie
        /\ \A c, d \in jar : c.host = d.host /\ c.name = d.name => c = d
    BY DEF IInv, TypeOK
  <1>2. /\ cert1 \in Key \cup {Uncached} /\ tab1 \in Tab /\ realm' \in Realm
        /\ tab.known \subseteq tab1.known
    BY <1>1 DEF AppStep
  <1>3. \A host : Cleared(me, host) \subseteq jar
    BY DEF Cleared
  <1>4. \A c \in jar' : c \in jar \/ \E user \in tab.known : c = SignedIn(me, user)
    BY <1>3 DEF AppStep
  <1>5. /\ jar' \subseteq Cookie
        /\ \A c, d \in jar' : c.host = d.host /\ c.name = d.name => c = d
    <2>1. CASE jar' \subseteq jar
      BY <1>1, <2>1
    <2>2. CASE \E user \in User : jar' = Cleared(me, "localhost") \cup {SignedIn(me, user)}
      <3>1. PICK user \in User : jar' = Cleared(me, "localhost") \cup {SignedIn(me, user)}
        BY <2>2
      <3> DEFINE new == SignedIn(me, user)
      <3>2. new \in Cookie /\ new.host = "localhost" /\ new.name = me
        BY DEF SignedIn, Cookie, App, Docs!Host, Docs!Cookie, Dashboard!Cookie
      <3> HIDE DEF new
      <3>3. \A c \in jar' : c \in jar \/ c = new
        BY <1>3, <3>1 DEF new
      <3>4. \A c \in jar' : c = new \/ ~(c.host = new.host /\ c.name = new.name)
        BY <3>1, <3>2 DEF Cleared, new
      <3> QED BY <1>1, <3>2, <3>3, <3>4
    <2> QED BY <1>3, <2>1, <2>2 DEF AppStep
  <1>6. \A user : SignedIn(me, user).user = user /\ SignedIn(me, user).signedBy = me
    BY DEF SignedIn
  <1>7. AppInv(jar', me, tab1)
    <2>1. tab1.at = "acs" => tab1.response # NoResponse
      BY DEF AppStep
    <2>2. tab1.response # NoResponse => tab1.response.user \in tab1.known
      BY <1>2 DEF AppStep, AppInv
    <2>3. \A c \in jar' : c.signedBy = me => c.user \in tab1.known
      BY <1>2, <1>4, <1>6 DEF AppInv
    <2>4. tab1.at = "page" => \E c \in jar' : Mine(c, me, tab1.host)
      BY DEF AppStep, AppInv
    <2> QED BY <2>1, <2>2, <2>3, <2>4 DEF AppInv
  <1>8. AppInv(jar', other, otherTab)
    <2>1. \A c \in jar' : c.signedBy = other => c \in jar
      BY <1>4, <1>6
    <2>2. \A c \in jar : c.name = other => c \in jar'
      BY DEF AppStep, Cleared
    <2> QED BY <2>1, <2>2 DEF AppInv, Mine
  <1> QED BY <1>2, <1>5, <1>7, <1>8

(* The realm's own steps send no tab where an assertion is needed and leave  *)
(* the jar alone.                                                            *)
LEMMA RealmStep ==
    ASSUME IInv,
           RolesFixed \/ RealmSessionEnds \/ RealmStops \/ RealmReturns \/ RealmImported
    PROVE  IInv' /\ jar' = jar
  <1>1. realm \in Realm /\ docsTab \in Tab /\ dashboardTab \in Tab /\ jar \subseteq Cookie
    BY DEF IInv, TypeOK, Realm
  <1>2. jar' = jar /\ docsCert' = docsCert /\ dashboardCert' = dashboardCert
    BY DEF RolesFixed, RealmSessionEnds, RealmStops, RealmReturns, RealmImported, appVars,
           docsVars, dashboardVars
  <1>3. realm' \in Realm
    <2>1. CASE RealmImported
      <3>1. realm.key + 1 \in Key
        BY <1>1, <2>1, ImportAssumption DEF RealmImported, Realm, Key
      <3> QED BY <2>1, <3>1 DEF RealmImported, Realm
    <2>2. CASE RolesFixed \/ RealmSessionEnds \/ RealmStops \/ RealmReturns
      BY <1>1, <2>2 DEF RolesFixed, RealmSessionEnds, RealmStops, RealmReturns, Realm
    <2> QED BY <2>1, <2>2
  <1>4. /\ docsTab' \in Tab /\ docsTab'.response = docsTab.response
        /\ docsTab'.known = docsTab.known /\ docsTab'.host = docsTab.host
        /\ docsTab'.at = docsTab.at \/ docsTab'.at = "error"
    BY <1>1 DEF RolesFixed, RealmSessionEnds, RealmStops, RealmReturns, RealmImported, appVars,
                docsVars, Tab, Docs!Place, Docs!Rest
  <1>5. /\ dashboardTab' \in Tab /\ dashboardTab'.response = dashboardTab.response
        /\ dashboardTab'.known = dashboardTab.known /\ dashboardTab'.host = dashboardTab.host
        /\ dashboardTab'.at = dashboardTab.at \/ dashboardTab'.at = "error"
    BY <1>1 DEF RolesFixed, RealmSessionEnds, RealmStops, RealmReturns, RealmImported, appVars,
                dashboardVars, Tab, Docs!Place, Docs!Rest
  <1>6. TypeOK'
    BY <1>2, <1>3, <1>4, <1>5 DEF IInv, TypeOK, Realm
  <1>7. AppInv(jar, "mock-docs", docsTab)' /\ AppInv(jar, "mock-dashboard", dashboardTab)'
    BY <1>2, <1>4, <1>5 DEF IInv, AppInv
  <1> QED BY <1>2, <1>6, <1>7 DEF IInv

(* Every step of Next is one of an app that leaves the other's tab alone, or *)
(* one of the realm.                                                         *)
LEMMA Steps ==
    ASSUME Next
    PROVE  \/ (Docs!Follow \/ Docs!Act) /\ UNCHANGED dashboardVars
           \/ (Dashboard!Follow \/ Dashboard!Act) /\ UNCHANGED docsVars
           \/ RolesFixed \/ RealmSessionEnds \/ RealmStops \/ RealmReturns \/ RealmImported
  BY DEF Next, DocsFollows, DashboardFollows, DashboardIndex, DashboardLogin, DashboardAcs,
         DashboardSso, DashboardMetadata, DashboardLogout, Dashboard!Follow, Dashboard!Act

(* Two blank tabs and an empty jar.                                          *)
LEMMA Initially == Init => IInv
  <1> SUFFICES ASSUME Init PROVE IInv
    OBVIOUS
  <1>1. 0 \in Key
    BY ImportAssumption DEF Key
  <1>2. /\ Docs!TabInit \in Tab /\ Docs!TabInit.at = "blank"
        /\ Docs!TabInit.response = NoResponse
    BY DEF Docs!TabInit, Tab, Docs!Place, Docs!Rest, Docs!Host, Docs!BaseHost
  <1> QED BY <1>1, <1>2 DEF Init, IInv, TypeOK, AppInv

(* Every step keeps the invariant: those of one app do not reach the other.  *)
LEMMA Step == IInv /\ [Next]_vars => IInv'
  <1> SUFFICES ASSUME IInv, [Next]_vars PROVE IInv'
    OBVIOUS
  <1>1. /\ docsTab \in Tab /\ dashboardTab \in Tab
        /\ docsCert \in Key \cup {Uncached} /\ dashboardCert \in Key \cup {Uncached}
        /\ AppInv(jar, "mock-docs", docsTab) /\ AppInv(jar, "mock-dashboard", dashboardTab)
    BY DEF IInv, TypeOK
  <1>2. CASE (Docs!Follow \/ Docs!Act) /\ UNCHANGED dashboardVars
    <2>1. AppStep("mock-docs", docsCert, docsTab, docsCert', docsTab')
      BY <1>2, DocsStep
    <2>2. /\ docsCert' \in Key \cup {Uncached} /\ docsTab' \in Tab /\ realm' \in Realm
          /\ jar' \subseteq Cookie
          /\ \A c, d \in jar' : c.host = d.host /\ c.name = d.name => c = d
          /\ AppInv(jar', "mock-docs", docsTab') /\ AppInv(jar', "mock-dashboard", dashboardTab)
      BY <1>1, <2>1, OneApp DEF App
    <2>3. dashboardTab' = dashboardTab /\ dashboardCert' = dashboardCert
      BY <1>2 DEF dashboardVars
    <2> QED BY <1>1, <2>2, <2>3 DEF IInv, TypeOK, AppInv, Realm
  <1>3. CASE (Dashboard!Follow \/ Dashboard!Act) /\ UNCHANGED docsVars
    <2>1. AppStep("mock-dashboard", dashboardCert, dashboardTab, dashboardCert', dashboardTab')
      BY <1>3, DashboardStep
    <2>2. /\ dashboardCert' \in Key \cup {Uncached} /\ dashboardTab' \in Tab /\ realm' \in Realm
          /\ jar' \subseteq Cookie
          /\ \A c, d \in jar' : c.host = d.host /\ c.name = d.name => c = d
          /\ AppInv(jar', "mock-dashboard", dashboardTab') /\ AppInv(jar', "mock-docs", docsTab)
      BY <1>1, <2>1, OneApp DEF App
    <2>3. docsTab' = docsTab /\ docsCert' = docsCert
      BY <1>3 DEF docsVars
    <2> QED BY <1>1, <2>2, <2>3 DEF IInv, TypeOK, AppInv, Realm
  <1>4. CASE RolesFixed \/ RealmSessionEnds \/ RealmStops \/ RealmReturns \/ RealmImported
    BY <1>4, RealmStep
  <1>5. CASE UNCHANGED vars
    BY <1>5 DEF vars, IInv, TypeOK, AppInv
  <1> QED BY <1>2, <1>3, <1>4, <1>5, Steps

(* The inductive invariant: whoever has a session was asserted to its app.   *)
THEOREM Invariance == Spec => []IInv
  <1>1. Init => IInv
    BY Initially
  <1>2. IInv /\ [Next]_vars => IInv'
    BY Step
  <1> QED BY <1>1, <1>2, PTL DEF Spec

(* The realm, the jar, both caches and both tabs keep their types, and no    *)
(* host has two cookies of one name.                                         *)
THEOREM TypeCorrect == Spec => []TypeOK
  <1>1. IInv => TypeOK
    BY DEF IInv
  <1> QED BY <1>1, Invariance, PTL

(* An app shows its page only in a session of its own, of somebody whom      *)
(* Keycloak has asserted to it, although both find theirs in the same jar.   *)
THEOREM PagesAreAsserted == Spec => []PageMeansAsserted
  <1>1. IInv => PageMeansAsserted
    BY DEF IInv, AppInv, Mine, PageMeansAsserted, Docs!Session, Docs!Cookie,
           Dashboard!Session, Dashboard!Cookie
  <1> QED BY <1>1, Invariance, PTL

(* A session of an app's is touched by no step of the other app, and by its  *)
(* own only where an assertion is consumed or a visitor logs out.            *)
LEMMA SessionsApart ==
    ASSUME NEW me \in App, NEW other \in App, me # other,
           NEW cert, NEW cert1, NEW tab, NEW tab1,
           AppStep(me, cert, tab, cert1, tab1)
    PROVE  /\ \A host : {c \in jar' : c.host = host /\ c.name = other /\ c.signedBy = other}
                     = {c \in jar : c.host = host /\ c.name = other /\ c.signedBy = other}
           /\ jar' # jar => tab.at \in {"acs", "page"} /\ tab1.at = "index"
  <1>1. jar' # jar => tab.at \in {"acs", "page"} /\ tab1.at = "index"
    BY DEF AppStep
  <1>2. \A c : c.name = other => (c \in jar' <=> c \in jar)
    BY DEF AppStep, Cleared, SignedIn
  <1> QED BY <1>1, <1>2

(* What happens in one app leaves the session of the other alone.            *)
THEOREM SessionsAreIndependent == Spec => SessionsIndependent
  <1> DEFINE Apart ==
        /\ Docs!Session("localhost")' # Docs!Session("localhost")
              => docsTab.at \in {"acs", "page"} /\ docsTab'.at = "index"
        /\ Dashboard!Session("localhost")' # Dashboard!Session("localhost")
              => dashboardTab.at \in {"acs", "page"} /\ dashboardTab'.at = "index"
  <1>1. IInv /\ [Next]_vars => [Apart]_vars
    <2> SUFFICES ASSUME IInv, Next PROVE Apart
      OBVIOUS
    <2> USE DEF Docs!Session, Dashboard!Session, Docs!Cookie, Dashboard!Cookie
    <2>1. CASE Docs!Follow \/ Docs!Act
      BY <2>1, DocsStep, SessionsApart DEF App
    <2>2. CASE Dashboard!Follow \/ Dashboard!Act
      BY <2>2, DashboardStep, SessionsApart DEF App
    <2>3. CASE jar' = jar
      BY <2>3
    <2> QED BY <2>1, <2>2, <2>3, Steps, RealmStep
  <1> QED BY <1>1, Invariance, PTL DEF Spec, SessionsIndependent

-----------------------------------------------------------------------------
(* What the liveness properties rest on *)

(* How many redirects a tab is away from rest, at most: five for a visitor   *)
(* whom the app does not know, who is sent to Keycloak and back.             *)
Distance(tab, session) ==
    CASE tab.at = "index" /\ session = {} -> 5
      [] tab.at = "login" -> 4
      [] tab.at = "sso" -> 3
      [] tab.at = "acs" -> 2
      [] tab.at = "index" /\ session # {} -> 1
      [] OTHER -> 0

DocsDistance == Distance(docsTab, Docs!Session(docsTab.host))
DashboardDistance == Distance(dashboardTab, Dashboard!Session(dashboardTab.host))

(* A tab that is under way comes closer to rest with every request, and      *)
(* nothing else sets it back: not the other app, not the realm.              *)
Approaches ==
    /\ docsTab.at \notin Docs!Rest =>
          DocsDistance' <= DocsDistance /\ (DocsFollows => DocsDistance' < DocsDistance)
    /\ dashboardTab.at \notin Docs!Rest =>
          /\ DashboardDistance' <= DashboardDistance
          /\ DashboardFollows => DashboardDistance' < DashboardDistance

(* The possible distances, place by place.                                   *)
LEMMA Distances ==
    ASSUME NEW tab \in Tab, NEW session
    PROVE  /\ Distance(tab, session) \in 0..5
           /\ tab.at \in Docs!Rest => Distance(tab, session) = 0
           /\ tab.at = "index" /\ session = {} => Distance(tab, session) = 5
           /\ tab.at = "index" /\ session # {} => Distance(tab, session) = 1
           /\ tab.at = "login" => Distance(tab, session) = 4
           /\ tab.at = "sso" => Distance(tab, session) = 3
           /\ tab.at = "acs" => Distance(tab, session) = 2
  BY DEF Distance, Tab, Docs!Place, Docs!Rest

(* Each redirect of mock-docs is one step closer, the one from the assertion *)
(* consumer because it leads to the host the cookie was set for.             *)
LEMMA DocsCloser ==
    ASSUME IInv, Docs!Follow
    PROVE  DocsDistance' < DocsDistance
  <1>0. docsTab \in Tab /\ docsTab' \in Tab
    BY DocsStep DEF IInv, TypeOK, AppStep
  <1> DEFINE session == Docs!Session(docsTab.host)
             session1 == Docs!Session(docsTab.host)'
  <1>1. /\ DocsDistance = Distance(docsTab, session)
        /\ DocsDistance' = Distance(docsTab', session1)
    BY DEF DocsDistance, Distance
  <1>2. CASE Docs!Index
    <2>1. docsTab.at = "index" /\ docsTab'.at = IF session = {} THEN "login" ELSE "page"
      BY <1>0, <1>2 DEF Docs!Index, Docs!Goes, Tab
    <2> HIDE DEF session, session1
    <2> QED BY <1>0, <1>1, <2>1, Distances DEF Docs!Rest
  <1>3. CASE Docs!SamlLogin
    <2>1. docsTab.at = "login" /\ docsTab'.at \in {"sso", "error"}
      BY <1>0, <1>3 DEF Docs!SamlLogin, Docs!Goes, Tab
    <2> HIDE DEF session, session1
    <2> QED BY <1>0, <1>1, <2>1, Distances DEF Docs!Rest
  <1>4. CASE Docs!Sso
    <2>1. docsTab.at = "sso" /\ docsTab'.at \in {"error", "prompt", "acs"}
      BY <1>0, <1>4 DEF Docs!Sso, Docs!Goes, Docs!Asserts, Tab
    <2> HIDE DEF session, session1
    <2> QED BY <1>0, <1>1, <2>1, Distances DEF Docs!Rest
  <1>5. CASE Docs!SamlAcs
    <2>1. docsTab.at = "acs"
      BY <1>5 DEF Docs!SamlAcs
    <2>2. CASE docsTab' = [docsTab EXCEPT !.at = "error"]
      <3>1. docsTab'.at = "error"
        BY <1>0, <2>2 DEF Tab
      <3> HIDE DEF session, session1
      <3> QED BY <1>0, <1>1, <2>1, <3>1, Distances DEF Docs!Rest
    <2>3. CASE /\ docsTab' = [docsTab EXCEPT !.at = "index", !.host = Docs!Landing(docsTab.host)]
               /\ SignedIn("mock-docs", docsTab.response.user) \in jar'
      <3>1. docsTab'.at = "index" /\ docsTab'.host = "localhost"
        BY <1>0, <2>3 DEF Tab, Docs!Landing, Docs!BaseHost
      <3>2. SignedIn("mock-docs", docsTab.response.user) \in session1
        BY <2>3, <3>1 DEF Docs!Session, Docs!Cookie, SignedIn
      <3> HIDE DEF session, session1
      <3> QED BY <1>0, <1>1, <2>1, <3>1, <3>2, Distances
    <2> QED
      BY <1>5, <2>2, <2>3 DEF Docs!SamlAcs, Docs!Goes, Docs!BaseHost, Docs!Cookie, SignedIn
  <1> QED BY <1>2, <1>3, <1>4, <1>5 DEF Docs!Follow

(* The same of mock-dashboard.                                               *)
LEMMA DashboardCloser ==
    ASSUME IInv, Dashboard!Follow
    PROVE  DashboardDistance' < DashboardDistance
  <1>0. dashboardTab \in Tab /\ dashboardTab' \in Tab
    BY DashboardStep DEF IInv, TypeOK, AppStep
  <1> DEFINE session == Dashboard!Session(dashboardTab.host)
             session1 == Dashboard!Session(dashboardTab.host)'
  <1>1. /\ DashboardDistance = Distance(dashboardTab, session)
        /\ DashboardDistance' = Distance(dashboardTab', session1)
    BY DEF DashboardDistance, Distance
  <1>2. CASE Dashboard!Index
    <2>1. dashboardTab.at = "index" /\ dashboardTab'.at = IF session = {} THEN "login" ELSE "page"
      BY <1>0, <1>2 DEF Dashboard!Index, Dashboard!Goes, Tab
    <2> HIDE DEF session, session1
    <2> QED BY <1>0, <1>1, <2>1, Distances DEF Docs!Rest
  <1>3. CASE Dashboard!SamlLogin
    <2>1. dashboardTab.at = "login" /\ dashboardTab'.at \in {"sso", "error"}
      BY <1>0, <1>3 DEF Dashboard!SamlLogin, Dashboard!Goes, Tab
    <2> HIDE DEF session, session1
    <2> QED BY <1>0, <1>1, <2>1, Distances DEF Docs!Rest
  <1>4. CASE Dashboard!Sso
    <2>1. dashboardTab.at = "sso" /\ dashboardTab'.at \in {"error", "prompt", "acs"}
      BY <1>0, <1>4 DEF Dashboard!Sso, Dashboard!Goes, Dashboard!Asserts, Tab
    <2> HIDE DEF session, session1
    <2> QED BY <1>0, <1>1, <2>1, Distances DEF Docs!Rest
  <1>5. CASE Dashboard!SamlAcs
    <2>1. dashboardTab.at = "acs"
      BY <1>5 DEF Dashboard!SamlAcs
    <2>2. CASE dashboardTab' = [dashboardTab EXCEPT !.at = "error"]
      <3>1. dashboardTab'.at = "error"
        BY <1>0, <2>2 DEF Tab
      <3> HIDE DEF session, session1
      <3> QED BY <1>0, <1>1, <2>1, <3>1, Distances DEF Docs!Rest
    <2>3. CASE /\ dashboardTab' = [dashboardTab EXCEPT !.at = "index", !.host = Dashboard!Landing(dashboardTab.host)]
               /\ SignedIn("mock-dashboard", dashboardTab.response.user) \in jar'
      <3>1. dashboardTab'.at = "index" /\ dashboardTab'.host = "localhost"
        BY <1>0, <2>3 DEF Tab, Dashboard!Landing, Dashboard!BaseHost
      <3>2. SignedIn("mock-dashboard", dashboardTab.response.user) \in session1
        BY <2>3, <3>1 DEF Dashboard!Session, Dashboard!Cookie, SignedIn
      <3> HIDE DEF session, session1
      <3> QED BY <1>0, <1>1, <2>1, <3>1, <3>2, Distances
    <2> QED
      BY <1>5, <2>2, <2>3 DEF Dashboard!SamlAcs, Dashboard!Goes, Dashboard!BaseHost, Dashboard!Cookie, SignedIn
  <1> QED BY <1>2, <1>3, <1>4, <1>5 DEF Dashboard!Follow

(* Whatever else happens leaves a tab that is under way, and the session its *)
(* app would find, as they are.                                              *)
LEMMA NotSetBack ==
    ASSUME IInv, Next
    PROVE  /\ docsTab.at \notin Docs!Rest =>
                 Docs!Follow \/ (docsTab' = docsTab /\ \A h : Docs!Session(h)' = Docs!Session(h))
           /\ dashboardTab.at \notin Docs!Rest =>
                 \/ Dashboard!Follow
                 \/ /\ dashboardTab' = dashboardTab
                    /\ \A h : Dashboard!Session(h)' = Dashboard!Session(h)
  <1> USE DEF Docs!Session, Docs!Cookie, Dashboard!Session, Dashboard!Cookie
  <1>1. CASE (Docs!Follow \/ Docs!Act) /\ UNCHANGED dashboardVars
    <2>1. \A h : Dashboard!Session(h)' = Dashboard!Session(h)
      BY <1>1, DocsStep, SessionsApart DEF App
    <2>2. Docs!Act /\ docsTab.at \notin Docs!Rest => docsTab' = docsTab /\ jar' = jar
      BY DEF Docs!Act, Docs!Rest, Docs!Visit, Docs!PostAgain, Docs!Credentials, Docs!Logout,
             Docs!SamlMetadata, Docs!Restart
    <2> QED BY <1>1, <2>1, <2>2 DEF dashboardVars
  <1>2. CASE (Dashboard!Follow \/ Dashboard!Act) /\ UNCHANGED docsVars
    <2>1. \A h : Docs!Session(h)' = Docs!Session(h)
      BY <1>2, DashboardStep, SessionsApart DEF App
    <2>2. Dashboard!Act /\ dashboardTab.at \notin Docs!Rest =>
            dashboardTab' = dashboardTab /\ jar' = jar
      BY DEF Dashboard!Act, Docs!Rest, Dashboard!Rest, Dashboard!Visit, Dashboard!PostAgain,
             Dashboard!Credentials, Dashboard!Logout, Dashboard!SamlMetadata, Dashboard!Restart
    <2> QED BY <1>2, <2>1, <2>2 DEF docsVars
  <1>3. CASE RolesFixed \/ RealmSessionEnds \/ RealmStops \/ RealmReturns \/ RealmImported
    <2>1. jar' = jar
      BY <1>3, RealmStep
    <2>2. /\ docsTab.at \notin Docs!Rest => docsTab' = docsTab
          /\ dashboardTab.at \notin Docs!Rest => dashboardTab' = dashboardTab
      BY <1>3 DEF RolesFixed, RealmSessionEnds, RealmStops, RealmReturns, RealmImported,
                  appVars, docsVars, dashboardVars, Docs!Rest
    <2> QED BY <2>1, <2>2
  <1> QED BY <1>1, <1>2, <1>3, Steps

(* No visit is bounced around between app and Keycloak: each request brings  *)
(* the tab closer to rest, by whatever host name it came, and nothing sets   *)
(* it back.  With the fairness of the browser this is NoLoop.                *)
THEOREM TabsApproachRest == Spec => [][Approaches]_vars
  <1>1. IInv /\ [Next]_vars => [Approaches]_vars
    <2> SUFFICES ASSUME IInv, Next PROVE Approaches
      OBVIOUS
    <2>1. /\ docsTab \in Tab /\ dashboardTab \in Tab
          /\ DocsDistance \in 0..5 /\ DashboardDistance \in 0..5
      BY Distances DEF IInv, TypeOK, DocsDistance, DashboardDistance
    <2>2. DocsFollows => Docs!Follow
      BY DEF DocsFollows
    <2>3. DashboardFollows => Dashboard!Follow
      BY DEF DashboardFollows, DashboardIndex, DashboardLogin, DashboardAcs, DashboardSso,
             Dashboard!Follow
    <2>4. ASSUME docsTab' = docsTab, \A h : Docs!Session(h)' = Docs!Session(h)
          PROVE  DocsDistance' = DocsDistance
      BY <2>4 DEF DocsDistance, Distance
    <2>5. ASSUME dashboardTab' = dashboardTab, \A h : Dashboard!Session(h)' = Dashboard!Session(h)
          PROVE  DashboardDistance' = DashboardDistance
      BY <2>5 DEF DashboardDistance, Distance
    <2>6. /\ Docs!Follow => DocsDistance' < DocsDistance
          /\ Dashboard!Follow => DashboardDistance' < DashboardDistance
      BY DocsCloser, DashboardCloser
    <2>7. docsTab.at \notin Docs!Rest =>
            DocsDistance' <= DocsDistance /\ (Docs!Follow => DocsDistance' < DocsDistance)
      <3>1. CASE Docs!Follow
        <4>1. docsTab' \in Tab
          BY <3>1, DocsStep DEF AppStep
        <4>2. DocsDistance' \in 0..5
          BY <4>1, Distances DEF DocsDistance, Distance
        <4> QED BY <2>1, <2>6, <3>1, <4>2
      <3>2. CASE ~Docs!Follow
        BY <2>1, <2>4, <3>2, NotSetBack
      <3> QED BY <3>1, <3>2
    <2>8. dashboardTab.at \notin Docs!Rest =>
            /\ DashboardDistance' <= DashboardDistance
            /\ Dashboard!Follow => DashboardDistance' < DashboardDistance
      <3>1. CASE Dashboard!Follow
        <4>1. dashboardTab' \in Tab
          BY <3>1, DashboardStep DEF AppStep
        <4>2. DashboardDistance' \in 0..5
          BY <4>1, Distances DEF DashboardDistance, Distance
        <4> QED BY <2>1, <2>6, <3>1, <4>2
      <3>2. CASE ~Dashboard!Follow
        BY <2>1, <2>5, <3>2, NotSetBack
      <3> QED BY <3>1, <3>2
    <2> QED BY <2>2, <2>3, <2>7, <2>8 DEF Approaches
  <1> QED BY <1>1, Invariance, PTL DEF Spec

(* What a silent sign-on takes: a provisioned realm in which the browser has *)
(* a session, and an app that has no other realm's certificate.              *)
Ready(cert) == Provisioned /\ realm.user # NoUser /\ Fresh(cert)

(* A tab on its way to the page: what it brings back is of this realm.       *)
Welcome(tab) ==
    \/ tab.at \in {"index", "login", "sso"}
    \/ tab.at = "acs" /\ tab.response.key = realm.key /\ tab.response.single

(* No step of such a sign-on leads to a prompt or to an error.               *)
StaysWelcome ==
    /\ (Ready(docsCert) /\ Ready(docsCert)' /\ Welcome(docsTab)) =>
          Welcome(docsTab)' \/ docsTab'.at = "page"
    /\ (Ready(dashboardCert) /\ Ready(dashboardCert)' /\ Welcome(dashboardTab)) =>
          Welcome(dashboardTab)' \/ dashboardTab'.at = "page"

(* Every answer to a request of mock-docs is a good one.                     *)
LEMMA DocsWelcomes ==
    ASSUME IInv, Ready(docsCert), Welcome(docsTab), Docs!Follow
    PROVE  Welcome(docsTab)' \/ docsTab'.at = "page"
  <1>1. docsTab \in Tab /\ realm.up /\ realm.single /\ realm.user # NoUser
    BY DEF IInv, TypeOK, Ready, Provisioned
  <1>2. CASE Docs!Index
    BY <1>1, <1>2 DEF Docs!Index, Docs!Goes, Tab, Welcome
  <1>3. CASE Docs!SamlLogin
    BY <1>1, <1>3 DEF Docs!SamlLogin, Docs!CertMissing, Docs!Goes, Tab, Welcome
  <1>4. CASE Docs!Sso
    <2> DEFINE response == [user |-> realm.user, key |-> realm.key, single |-> realm.single]
    <2>1. /\ docsTab' = [docsTab EXCEPT !.at = "acs", !.response = response, !.known = @ \cup {realm.user}]
          /\ realm' = realm
      BY <1>1, <1>4 DEF Docs!Sso, Docs!Asserts
    <2>2. response.key = realm.key /\ response.single
      BY <1>1
    <2> HIDE DEF response
    <2>3. docsTab'.at = "acs" /\ docsTab'.response = response
      BY <1>1, <2>1 DEF Tab
    <2> QED BY <2>1, <2>2, <2>3 DEF Welcome
  <1>5. CASE Docs!SamlAcs
    <2>1. ~Docs!CertMissing
      BY <1>1 DEF Docs!CertMissing
    <2>2. Docs!CertRead => docsCert' = realm.key
      BY DEF Docs!CertRead, Ready, Fresh
    <2>3. docsTab.response.key = realm.key /\ docsTab.response.single
      BY <1>5 DEF Welcome, Docs!SamlAcs
    <2>4. Docs!CertRead => Docs!Accepted(docsTab.response, docsCert')
      BY <2>2, <2>3 DEF Docs!Accepted
    <2>5. docsTab' = [docsTab EXCEPT !.at = "index", !.host = Docs!Landing(docsTab.host)]
      BY <1>5, <2>1, <2>4 DEF Docs!SamlAcs
    <2>6. docsTab'.at = "index"
      BY <1>1, <2>5 DEF Tab
    <2> QED BY <2>6 DEF Welcome
  <1> QED BY <1>2, <1>3, <1>4, <1>5 DEF Docs!Follow

(* The same with mock-dashboard.                                             *)
LEMMA DashboardWelcomes ==
    ASSUME IInv, Ready(dashboardCert), Welcome(dashboardTab), Dashboard!Follow
    PROVE  Welcome(dashboardTab)' \/ dashboardTab'.at = "page"
  <1>1. dashboardTab \in Tab /\ realm.up /\ realm.single /\ realm.user # NoUser
    BY DEF IInv, TypeOK, Ready, Provisioned
  <1>2. CASE Dashboard!Index
    BY <1>1, <1>2 DEF Dashboard!Index, Dashboard!Goes, Tab, Welcome
  <1>3. CASE Dashboard!SamlLogin
    BY <1>1, <1>3 DEF Dashboard!SamlLogin, Dashboard!CertMissing, Dashboard!Goes, Tab, Welcome
  <1>4. CASE Dashboard!Sso
    <2> DEFINE response == [user |-> realm.user, key |-> realm.key, single |-> realm.single]
    <2>1. /\ dashboardTab' = [dashboardTab EXCEPT !.at = "acs", !.response = response, !.known = @ \cup {realm.user}]
          /\ realm' = realm
      BY <1>1, <1>4 DEF Dashboard!Sso, Dashboard!Asserts
    <2>2. response.key = realm.key /\ response.single
      BY <1>1
    <2> HIDE DEF response
    <2>3. dashboardTab'.at = "acs" /\ dashboardTab'.response = response
      BY <1>1, <2>1 DEF Tab
    <2> QED BY <2>1, <2>2, <2>3 DEF Welcome
  <1>5. CASE Dashboard!SamlAcs
    <2>1. ~Dashboard!CertMissing
      BY <1>1 DEF Dashboard!CertMissing
    <2>2. Dashboard!CertRead => dashboardCert' = realm.key
      BY DEF Dashboard!CertRead, Ready, Fresh
    <2>3. dashboardTab.response.key = realm.key /\ dashboardTab.response.single
      BY <1>5 DEF Welcome, Dashboard!SamlAcs
    <2>4. Dashboard!CertRead => Dashboard!Accepted(dashboardTab.response, dashboardCert')
      BY <2>2, <2>3 DEF Dashboard!Accepted
    <2>5. dashboardTab' = [dashboardTab EXCEPT !.at = "index", !.host = Dashboard!Landing(dashboardTab.host)]
      BY <1>5, <2>1, <2>4 DEF Dashboard!SamlAcs
    <2>6. dashboardTab'.at = "index"
      BY <1>1, <2>5 DEF Tab
    <2> QED BY <2>6 DEF Welcome
  <1> QED BY <1>2, <1>3, <1>4, <1>5 DEF Dashboard!Follow

(* A realm that is up keeps its key.                                         *)
LEMMA KeyStays ==
    ASSUME IInv, Next, realm.up
    PROVE  realm'.key = realm.key
  <1>0. realm \in Realm
    BY DEF IInv, TypeOK, Realm
  <1>1. CASE Docs!Follow \/ Docs!Act
    BY <1>0, <1>1 DEF Docs!Follow, Docs!Act, Docs!Index, Docs!SamlLogin, Docs!SamlAcs, Docs!Sso,
         Docs!Visit, Docs!PostAgain, Docs!Credentials, Docs!Logout, Docs!SamlMetadata,
         Docs!Restart, Realm
  <1>2. CASE Dashboard!Follow \/ Dashboard!Act
    BY <1>0, <1>2 DEF Dashboard!Follow, Dashboard!Act, Dashboard!Index, Dashboard!SamlLogin,
         Dashboard!SamlAcs, Dashboard!Sso, Dashboard!Visit, Dashboard!PostAgain,
         Dashboard!Credentials, Dashboard!Logout, Dashboard!SamlMetadata, Dashboard!Restart,
         Realm
  <1>3. CASE RolesFixed \/ RealmSessionEnds \/ RealmStops \/ RealmReturns \/ RealmImported
    BY <1>0, <1>3 DEF RolesFixed, RealmSessionEnds, RealmStops, RealmReturns, RealmImported, Realm
  <1> QED BY <1>1, <1>2, <1>3, Steps

(* While the realm is provisioned and the browser has a session with it, a   *)
(* visit leads to no prompt and no error on its way to the page, unless the  *)
(* app holds the certificate of another realm.  With TabsApproachRest and    *)
(* the fairness of the browser this is SilentSignOn.                         *)
THEOREM SignOnStaysSilent == Spec => [][StaysWelcome]_vars
  <1>1. IInv /\ [Next]_vars => [StaysWelcome]_vars
    <2> SUFFICES ASSUME IInv, Next PROVE StaysWelcome
      OBVIOUS
    <2>1. ASSUME Ready(docsCert), Ready(docsCert)', Welcome(docsTab), ~Docs!Follow
          PROVE  Welcome(docsTab)'
      <3>1. docsTab' = docsTab
        BY <2>1, NotSetBack DEF Welcome, Docs!Rest
      <3>2. realm'.key = realm.key
        BY <2>1, KeyStays DEF Ready, Provisioned
      <3> QED BY <2>1, <3>1, <3>2 DEF Welcome
    <2>2. ASSUME Ready(dashboardCert), Ready(dashboardCert)', Welcome(dashboardTab),
                 ~Dashboard!Follow
          PROVE  Welcome(dashboardTab)'
      <3>1. dashboardTab' = dashboardTab
        BY <2>2, NotSetBack DEF Welcome, Docs!Rest
      <3>2. realm'.key = realm.key
        BY <2>2, KeyStays DEF Ready, Provisioned
      <3> QED BY <2>2, <3>1, <3>2 DEF Welcome
    <2> QED BY <2>1, <2>2, DocsWelcomes, DashboardWelcomes DEF StaysWelcome
  <1> QED BY <1>1, Invariance, PTL DEF Spec
=============================================================================
