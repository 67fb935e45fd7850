--------------------------- MODULE MCContracts ---------------------------
(* An instance of Contracts for TLC: one operation, its response with one  *)
(* property, and a parameter that operations may refer to, in the form of  *)
(* packages/contracts/openapi.yaml.                                        *)
EXTENDS Contracts, TLC

CONSTANT Member  \* the name of the property

Obj(members) == [members |-> members]
Text(text) == [text |-> text]
Number(number) == [number |-> number]
Flag(flag) == [flag |-> flag]
Items(items) == [items |-> items]

Ref(text) == Obj("$ref" :> Text(text))

Schema == Obj([type |-> Text("object"),
               required |-> Items(<<Text(Member)>>),
               properties |-> Obj(Member :> Obj([maxLength |-> Number(3),
                                                 enum |-> Items(<<Text("ok")>>)]))])

Operation == Obj([summary |-> Text("Check liveness"),
                  tags |-> Items(<<Text("Health")>>),
                  responses |-> Obj("200" :> Ref("Live"))])

Key == Obj([in |-> Text("header"), required |-> Flag(TRUE)])

Contract ==
    Obj([paths |-> Obj("/live" :> Obj([get |-> Operation])),
         components |-> Obj([parameters |-> Obj([Key |-> Key]),
                             schemas |-> Obj([Live |-> Schema])])])

Get == <<"paths", "/live", "get">>
Live == <<"components", "schemas", "Live">>

Put(path, value, breaking) ==
    [operation |-> "replace", path |-> path, value |-> value, breaking |-> breaking]

Drop(path) == [operation |-> "remove", path |-> path, breaking |-> TRUE]

Changes ==
    { Drop(Get),
      Drop(Get \o <<"responses", "200">>),
      Drop(Live \o <<"properties", Member>>),
      Put(Live \o <<"properties", Member, "maxLength">>, Number(2), TRUE),
      Put(Live \o <<"properties", Member, "minLength">>, Number(1), TRUE),
      Put(Live \o <<"properties", Member, "enum">>,
          Items(<<Text("ok"), Text("no")>>), TRUE),
      Put(Live \o <<"required">>, Items(<<Text("since"), Text(Member)>>), TRUE),
      Put(Get \o <<"parameters">>, Items(<<Key>>), TRUE),
      Put(Get \o <<"parameters">>, Items(<<Ref("Key")>>), TRUE),
      Put(Get \o <<"summary">>, Text("Liveness"), FALSE),
      Put(Get \o <<"tags">>, Items(<<Text("New"), Text("Health")>>), FALSE),
      Put(Live \o <<"properties", "since">>, Obj([type |-> Text("string")]), FALSE),
      Put(<<"paths", "/ready">>, Obj([get |-> Operation]), FALSE) }
=============================================================================
