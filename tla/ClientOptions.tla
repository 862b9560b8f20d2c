---------------------------- MODULE ClientOptions ----------------------------
(***************************************************************************)
(* One ClientOptions object in the hands of an application: setters in any *)
(* order, some with values Validate refuses, a TLS configuration whose     *)
(* files come, go and change, and Client::Create as often as the           *)
(* application likes.  The options that no operation tests or copies to    *)
(* the channel are left out; the callbacks are in Connection.              *)
(***************************************************************************)
EXTENDS Messages

CONSTANTS
  Addresses,  \* arguments of set_address: [text, host, given, number, port]; see SetAddress
  Ports,      \* ports for set_address(host, port)
  ClientIds,  \* arguments of set_client_id, "" among them
  Limits,     \* the int options that must be positive
  LimitValues, MaxRetryValues, \* arguments of their setters and of set_retry_policy
  Paths, Pems, \* arguments of the factories of TlsConfig, "" among both
  FileContents,    \* what a file can hold; "" is an empty one, "missing" is no file
  MaxCreates   \* bound: clients created

ASSUME ClientOptionsAssumption ==
  /\ Ports \cup LimitValues \cup MaxRetryValues \subseteq Int /\ MaxCreates \in Nat
  /\ NoText \in Paths \cap Pems \cap ClientIds
  /\ \A a \in Addresses : a.port \in Int

VARIABLES
  options, \* the object; a client id is <<>>, <<"given", text>> or <<"uuid", n>>
  files,   \* the file system
  asked,   \* history: the address the application gave last, <<>> if it is no address
  created, \* the last call if it was Create: what came of it
  names    \* history: the client ids of the clients created

optionVars == <<options, files, asked, created, names>>

-----------------------------------------------------------------------------
(* TLS. *)

NewTlsConfig == [enabled |-> FALSE, mtls |-> FALSE, skipVerify |-> FALSE,
                 ca |-> NoText, cert |-> NoText, key |-> NoText,
                 caPem |-> NoText, certPem |-> NoText, keyPem |-> NoText]

FromCertFile(ca) == [NewTlsConfig EXCEPT !.ca = ca, !.enabled = TRUE]

FromPem(pem) == [NewTlsConfig EXCEPT !.caPem = pem, !.enabled = TRUE]

FromMTLS(cert, key, ca) ==
  [NewTlsConfig EXCEPT !.cert = cert, !.key = key, !.ca = ca, !.enabled = TRUE, !.mtls = TRUE]

FromMTLSPem(cert, key, ca) ==
  [NewTlsConfig EXCEPT !.certPem = cert, !.keyPem = key, !.caPem = ca, !.enabled = TRUE, !.mtls = TRUE]

TlsConfigs ==
  {NewTlsConfig} \cup {FromCertFile(p) : p \in Paths} \cup {FromPem(t) : t \in Pems} \cup
  {FromMTLS(c, k, p) : c, k, p \in Paths} \cup {FromMTLSPem(c, k, p) : c, k, p \in Pems}

Readable(path) == path \in DOMAIN files /\ files[path] \notin {"missing", NoText}

\* A text, or else a file, or else nothing: the text of a part of the
\* credentials, and whether it could be had.
Part(pem, path) ==
  IF pem # NoText THEN [ok |-> TRUE, text |-> pem]
  ELSE IF path = NoText THEN [ok |-> TRUE, text |-> NoText]
  ELSE IF Readable(path) THEN [ok |-> TRUE, text |-> files[path]]
  ELSE [ok |-> FALSE, text |-> NoText]

Insecure == [kind |-> "insecure", roots |-> NoText, cert |-> NoText, key |-> NoText]

\* Variant: without its files a client goes on without TLS.
BuildChannelCredentialsLenient(t) ==
  LET roots == Part(t.caPem, t.ca)
      none == [ok |-> TRUE, text |-> NoText]
      cert == IF t.mtls THEN Part(t.certPem, t.cert) ELSE none
      key == IF t.mtls THEN Part(t.keyPem, t.key) ELSE none
  IN  IF t.enabled /\ roots.ok /\ cert.ok /\ key.ok
      THEN [status |-> IF t.skipVerify THEN "kValidation" ELSE "kOk",
            channel |-> [kind |-> "ssl", roots |-> roots.text, cert |-> cert.text, key |-> key.text]]
      ELSE [status |-> "kOk", channel |-> Insecure]

BuildChannelCredentials(t) ==
  LET roots == Part(t.caPem, t.ca)
      none == [ok |-> TRUE, text |-> NoText]
      cert == IF t.mtls THEN Part(t.certPem, t.cert) ELSE none
      key == IF t.mtls THEN Part(t.keyPem, t.key) ELSE none
  IN  IF ~t.enabled THEN [status |-> "kOk", channel |-> Insecure]
      ELSE IF t.skipVerify \/ ~(roots.ok /\ cert.ok /\ key.ok)
      THEN [status |-> "kValidation", channel |-> Insecure]
      ELSE [status |-> "kOk", channel |-> [kind |-> "ssl", roots |-> roots.text,
                                           cert |-> cert.text, key |-> key.text]]

-----------------------------------------------------------------------------
(* The setters. *)

DefaultPort == 50000
MaxPort == 65535

NoClient == [status |-> "none", target |-> <<>>, channel |-> Insecure]

OptionsInit ==
  /\ options = [host |-> "localhost", port |-> DefaultPort, clientId |-> <<>>, tls |-> NewTlsConfig,
                limits |-> [n \in Limits |-> 1], maxRetries |-> 3]
  /\ files = [p \in Paths \ {NoText} |-> "missing"]
  /\ asked = <<"localhost", DefaultPort>>
  /\ created = NoClient /\ names = <<>>

SetTo(o) == options' = o /\ created' = NoClient /\ UNCHANGED <<files, names>>

SetHostPort(host, port) ==
  /\ SetTo([options EXCEPT !.host = host, !.port = port])
  /\ asked' = <<host, port>>

\* a.given: something follows the last colon of the text; a.number: stoi makes
\* a.port of it (it stops at the first character that is no digit).
SetAddress(a) ==
  /\ SetTo(IF a.given THEN [options EXCEPT !.host = a.host, !.port = IF a.number THEN a.port ELSE 0]
         ELSE [options EXCEPT !.host = a.text, !.port = 0])
  /\ asked' = IF a.given /\ a.number THEN <<a.host, a.port>> ELSE <<>>

SetOption ==
  /\ \/ \E id \in ClientIds : SetTo([options EXCEPT !.clientId = IF id = NoText THEN <<>> ELSE <<"given", id>>])
     \/ \E n \in Limits, v \in LimitValues : SetTo([options EXCEPT !.limits[n] = v])
     \/ \E v \in MaxRetryValues : SetTo([options EXCEPT !.maxRetries = v])
     \/ \E t \in TlsConfigs, skip \in BOOLEAN : SetTo([options EXCEPT !.tls = [t EXCEPT !.skipVerify = skip]])
  /\ UNCHANGED asked

FileChanges(path, content) ==
  /\ files[path] # content
  /\ files' = [files EXCEPT ![path] = content] /\ created' = NoClient
  /\ UNCHANGED <<options, asked, names>>

-----------------------------------------------------------------------------
(* Client::Create. *)

Validate(o) ==
  IF /\ o.host # NoText /\ o.port \in 1..MaxPort
     /\ \A n \in Limits : o.limits[n] > 0
     /\ o.maxRetries \in 0..10
  THEN "kOk" ELSE "kValidation"

\* Practically, no two are the same.
GenerateUUID == <<"uuid", Len(names) + 1>>

Target(o) == <<o.host, o.port>>

\* On a copy of the options.  The broker may be out of reach (see Connection).
Create ==
  LET id == IF options.clientId = <<>> THEN GenerateUUID ELSE options.clientId
      creds == BuildChannelCredentials(options.tls)
      status == IF Validate(options) # "kOk" THEN Validate(options) ELSE creds.status
  IN  /\ Len(names) < MaxCreates
      /\ \/ /\ status = "kOk"
            /\ created' = [status |-> "kOk", target |-> Target(options), channel |-> creds.channel]
            /\ names' = Append(names, id)
         \/ /\ created' = [NoClient EXCEPT !.status = IF status = "kOk" THEN "kTimeout" ELSE status]
            /\ UNCHANGED names
      /\ UNCHANGED <<options, files, asked>>

OptionsNext ==
  \/ \E a \in Addresses : SetAddress(a)
  \/ \E port \in Ports : SetHostPort("host", port)
  \/ SetOption
  \/ \E path \in DOMAIN files, content \in FileContents : FileChanges(path, content)
  \/ Create

-----------------------------------------------------------------------------
(***************************************************************************)
(* A client connects to the address the application gave last, and to none *)
(* if that was no address: what is left of earlier calls of set_address is *)
(* never combined with the last one.                                       *)
(***************************************************************************)
TargetIsAsked == created.status = "kOk" => created.target = asked

(***************************************************************************)
(* An application that asked for TLS never gets a client without it, nor   *)
(* one that verifies against other roots than the ones it gave, as they    *)
(* are when the client is created; a file that cannot be read is an error. *)
(***************************************************************************)
TlsIsKept ==
  LET t == options.tls
  IN  created.status = "kOk" /\ t.enabled =>
        /\ created.channel.kind = "ssl" /\ ~t.skipVerify
        /\ t.caPem # NoText => created.channel.roots = t.caPem
        /\ t.ca # NoText => Readable(t.ca) /\ created.channel.roots = files[t.ca]
        /\ t.mtls /\ t.key # NoText => created.channel.key = files[t.key] /\ Readable(t.key)

(***************************************************************************)
(* Two clients have the same id only if the application chose it, though   *)
(* one options object may serve for several clients.                       *)
(***************************************************************************)
NamesAreDistinct ==
  \A i, j \in DOMAIN names : i # j /\ names[i] = names[j] => names[i][1] = "given"

(***************************************************************************)
(* A client is what the application asked for, however the options were    *)
(* set and used before: its target, its TLS and its id.                    *)
(***************************************************************************)
CreatedAsAsked == TargetIsAsked /\ TlsIsKept /\ NamesAreDistinct

-----------------------------------------------------------------------------
(***************************************************************************)
(* Why CreatedAsAsked holds.  A setter of the address leaves the address   *)
(* that was asked for, or port 0, which Validate refuses; no factory of    *)
(* TlsConfig gives both a text and a file; and the uuid of a client has    *)
(* the client's own number.                                                *)
(***************************************************************************)
TlsRecords ==
  [enabled : BOOLEAN, mtls : BOOLEAN, skipVerify : BOOLEAN, ca : Paths, cert : Paths, key : Paths,
   caPem : Pems, certPem : Pems, keyPem : Pems]

Hosts == {"localhost", "host"} \cup {a.host : a \in Addresses} \cup {a.text : a \in Addresses}

OptionsTypeOK ==
  /\ options \in [host : Hosts, port : Int, tls : TlsRecords,
                  clientId : {<<>>} \cup {<<"given", id>> : id \in ClientIds},
                  limits : [Limits -> Int], maxRetries : Int]
  /\ files \in [Paths \ {NoText} -> FileContents \cup {"missing"}]
  /\ names \in Seq(({"uuid"} \X Nat) \cup ({"given"} \X ClientIds))

AskedInv == asked = Target(options) \/ (asked = <<>> /\ options.port = 0)

TlsInv ==
  LET t == options.tls
  IN  (t.caPem # NoText => t.ca = NoText) /\ (t.keyPem # NoText => t.key = NoText)

NamesInv == \A i \in DOMAIN names : names[i] = <<"uuid", i>> \/ names[i][1] = "given"

OptionsInv == OptionsTypeOK /\ AskedInv /\ TlsInv /\ NamesInv /\ TargetIsAsked /\ TlsIsKept

=============================================================================
