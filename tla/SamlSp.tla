------------------------------- MODULE SamlSp -------------------------------
(* One SAML service provider of the lab (mock-docs/app.py; the text of       *)
(* mock-dashboard/app.py differs only in names) and the browser tab that     *)
(* visits it.  SsoDemo composes two of them with one browser and one realm.  *)
CONSTANTS
    Me,             \* APP_NAME
    User,
    NoUser,         \* nobody has a realm session in this browser
    Uncached,       \* no certificate fetched yet
    NoResponse      \* no response of Keycloak's has reached the tab

VARIABLES
    cert,       \* _idp_cert_cache: which of the realm's keys, or Uncached
    tab,        \* where the tab is, under which name of the host, and the
                \* response it holds (a reload or "back" posts it once more);
                \* known: whom Keycloak has asserted to this app (history)
    jar,        \* the browser's cookies: one jar for every port of a host
    realm       \* up; signing key; role_list fixed; whose session the browser has

\* The names by which a browser may reach the published port; SP_BASE_URL has
\* the first.
Host == {"localhost", "127.0.0.1"}
BaseHost == "localhost"

\* Between requests, the tab shows one of these.
Rest == {"blank", "page", "prompt", "error"}
Place == Rest \cup {"index", "login", "sso", "acs"}

TabInit == [at |-> "blank", host |-> BaseHost, response |-> NoResponse, known |-> {}]

\* Mutant: both apps use Flask's default name.
CookieDefault == "session"

\* SESSION_COOKIE_NAME
Cookie == Me

\* Mutant: one name and one secret key for both apps.
SessionAnywhere(host) == {c \in jar : c.host = host}

\* The session Flask finds in a request to this app; a cookie that another key
\* signed is no session.
Session(host) ==
    {c \in jar : c.host = host /\ c.name = Cookie /\ c.signedBy = Me}

\* The cookies that a new session of this app leaves alone.
Others(host) == {c \in jar : c.host # host \/ c.name # Cookie}

Goes(place) == tab' = [tab EXCEPT !.at = place]

-----------------------------------------------------------------------------

\* Mutant: a descriptor without a certificate is not checked for.
CertReadUnchecked ==
    \/ cert # Uncached /\ UNCHANGED cert
    \/ cert = Uncached /\ cert' = IF realm.up THEN realm.key ELSE NoResponse

\* idp_x509cert: the cached certificate, else the one the descriptor has now;
\* while Keycloak does not answer for the realm, an exception.
CertRead ==
    \/ cert # Uncached /\ UNCHANGED cert
    \/ cert = Uncached /\ realm.up /\ cert' = realm.key

CertMissing == cert = Uncached /\ ~realm.up /\ UNCHANGED cert

Index ==
    /\ tab.at = "index"
    /\ Goes(IF Session(tab.host) = {} THEN "login" ELSE "page")
    /\ UNCHANGED <<cert, jar, realm>>

\* /saml/login: the address the visitor came for travels as RelayState.
SamlLogin ==
    /\ tab.at = "login"
    /\ \/ CertRead /\ Goes("sso")
       \/ CertMissing /\ Goes("error")
    /\ UNCHANGED <<jar, realm>>

\* Mutant: InResponseTo is checked against an id kept in a cookie, which does not
\* come along with Keycloak's cross-site POST.
AcceptedIfStashed(response, key) == FALSE

\* process_response in strict mode: the key signed it, and no attribute name
\* occurs twice.
Accepted(response, key) == response.key = key /\ response.single

\* Mutant: the browser is sent wherever RelayState says.
LandingAnywhere(relay) == relay

\* RelayState is followed under SP_BASE_URL only, else it is the index of the
\* host that was posted to.
Landing(relay) == IF relay = BaseHost THEN relay ELSE BaseHost

SamlAcs ==
    /\ tab.at = "acs"
    /\ \/ CertMissing /\ Goes("error") /\ UNCHANGED jar
       \/ CertRead /\ ~Accepted(tab.response, cert') /\ Goes("error") /\ UNCHANGED jar
       \/ /\ CertRead
          /\ Accepted(tab.response, cert')
          /\ jar' = Others(BaseHost) \cup
                {[host |-> BaseHost, name |-> Cookie, signedBy |-> Me,
                  user |-> tab.response.user]}
          /\ tab' = [tab EXCEPT !.at = "index", !.host = Landing(tab.host)]
    /\ UNCHANGED realm

SamlMetadata ==
    /\ cert = Uncached
    /\ CertRead
    /\ UNCHANGED <<tab, jar, realm>>

\* Local: the realm's session is left alone.
Logout ==
    /\ tab.at = "page"
    /\ jar' = Others(tab.host)
    /\ Goes("index")
    /\ UNCHANGED <<cert, realm>>

\* The container restarts; the cookies it signed stay good.
Restart ==
    /\ cert # Uncached
    /\ cert' = Uncached
    /\ UNCHANGED <<tab, jar, realm>>

-----------------------------------------------------------------------------

\* Somebody types the app's address, by one name of the host or the other.
Visit ==
    /\ tab.at \in Rest
    /\ \E host \in Host : tab' = [tab EXCEPT !.at = "index", !.host = host]
    /\ UNCHANGED <<cert, jar, realm>>

\* A reload, or "back": the response is posted again.
PostAgain ==
    /\ tab.at \in {"page", "error"}
    /\ tab.response # NoResponse
    /\ Goes("acs")
    /\ UNCHANGED <<cert, jar, realm>>

Asserts(user) ==
    tab' = [tab EXCEPT !.at = "acs",
               !.response = [user |-> user, key |-> realm.key, single |-> realm.single],
               !.known = @ \cup {user}]

\* Keycloak asks for credentials if the browser has no session with the realm.
Sso ==
    /\ tab.at = "sso"
    /\ \/ ~realm.up /\ Goes("error")
       \/ realm.up /\ realm.user = NoUser /\ Goes("prompt")
       \/ realm.up /\ realm.user # NoUser /\ Asserts(realm.user)
    /\ UNCHANGED <<cert, jar, realm>>

\* The form is sent; a session that came up in the other tab is used as it is.
Credentials ==
    /\ tab.at = "prompt"
    /\ realm.up
    /\ \E u \in User :
          LET user == IF realm.user = NoUser THEN u ELSE realm.user IN
          Asserts(user) /\ realm' = [realm EXCEPT !.user = user]
    /\ UNCHANGED <<cert, jar>>

\* What needs no one's decision: answers, and redirects followed.
Follow == Index \/ SamlLogin \/ SamlAcs \/ Sso

Act == Visit \/ PostAgain \/ Credentials \/ Logout \/ SamlMetadata \/ Restart
=============================================================================
