------------------------------ MODULE Registry ------------------------------
(***************************************************************************)
(* The image registry and the VM templates: tables whose ids come from an  *)
(* atomic counter, taken before the lock of the table is.  Two creations   *)
(* may therefore enter the table in either order, and a deletion may come  *)
(* between them.                                                           *)
(***************************************************************************)
EXTENDS Api, FiniteSets

CONSTANTS Users,                    \* clients with a request under way
          MaxImageID, MaxTemplateID \* bounds on the counters

VARIABLES images,       \* id -> who registered it ("default" at start)
          nextImageID,
          templates, nextTemplateID,
          entering      \* client -> <<table, id>> taken but not yet entered

rgVars == <<answer, images, nextImageID, templates, nextTemplateID, entering>>
imageVars == <<images, nextImageID>>
templateVars == <<templates, nextTemplateID>>

Default == "default"

NewImageService == images = [i \in 1 .. 3 |-> Default] /\ nextImageID = 4
NewTemplateService == templates = [i \in 1 .. 3 |-> Default] /\ nextTemplateID = 4

RgInit == /\ answer = Pending /\ entering = Empty
          /\ NewImageService /\ NewTemplateService

NotEntering(c) == c \notin DOMAIN entering

\* Mutant: the id is the number of images plus one.
RegisterImageByCount(c) ==
    /\ NotEntering(c) /\ \A i \in DOMAIN images : i < MaxImageID
    /\ entering' = Put(entering, c, <<"image", 1 + Cardinality(DOMAIN images)>>)
    /\ Reply(Pending) /\ UNCHANGED <<imageVars, templateVars>>

RegisterImage(c) ==
    /\ NotEntering(c) /\ nextImageID <= MaxImageID
    /\ nextImageID' = nextImageID + 1
    /\ entering' = Put(entering, c, <<"image", nextImageID>>)
    /\ Reply(Pending) /\ UNCHANGED <<images, templateVars>>

EnterImage(c) ==
    /\ ~NotEntering(c) /\ entering[c][1] = "image"
    /\ images' = Put(images, entering[c][2], c)
    /\ entering' = Del(entering, c) /\ Reply(201)
    /\ UNCHANGED <<nextImageID, templateVars>>

\* A missing name or format, or a body that does not decode.
handleRegisterImage(c) ==
    \/ Reply(400) /\ UNCHANGED <<imageVars, templateVars, entering>>
    \/ RegisterImage(c)
    \/ EnterImage(c)

DeleteImage(i) == images' = Del(images, i) /\ UNCHANGED <<nextImageID, templateVars, entering>>

handleDeleteImage ==
    \E i \in 1 .. MaxImageID :
        \/ i \in DOMAIN images /\ DeleteImage(i) /\ Reply(204)
        \/ /\ i \notin DOMAIN images /\ Reply(404)
           /\ UNCHANGED <<imageVars, templateVars, entering>>

ListImages == Reply(200)
GetImage(i) == Lookup(i, images, 404)

handleListImages == ListImages /\ UNCHANGED <<imageVars, templateVars, entering>>

handleGetImage == /\ \E i \in 1 .. MaxImageID : GetImage(i)
                  /\ UNCHANGED <<imageVars, templateVars, entering>>

-----------------------------------------------------------------------------
CreateTemplate(c) ==
    /\ NotEntering(c) /\ nextTemplateID <= MaxTemplateID
    /\ nextTemplateID' = nextTemplateID + 1
    /\ entering' = Put(entering, c, <<"template", nextTemplateID>>)
    /\ Reply(Pending) /\ UNCHANGED <<templates, imageVars>>

EnterTemplate(c) ==
    /\ ~NotEntering(c) /\ entering[c][1] = "template"
    /\ templates' = Put(templates, entering[c][2], c)
    /\ entering' = Del(entering, c) /\ Reply(201)
    /\ UNCHANGED <<nextTemplateID, imageVars>>

handleCreateTemplate(c) ==
    \/ Reply(400) /\ UNCHANGED <<imageVars, templateVars, entering>>
    \/ CreateTemplate(c)
    \/ EnterTemplate(c)

DeleteTemplate(i) ==
    templates' = Del(templates, i) /\ UNCHANGED <<nextTemplateID, imageVars, entering>>

handleDeleteTemplate ==
    \E i \in 1 .. MaxTemplateID :
        \/ i \in DOMAIN templates /\ DeleteTemplate(i) /\ Reply(204)
        \/ /\ i \notin DOMAIN templates /\ Reply(404)
           /\ UNCHANGED <<imageVars, templateVars, entering>>

ListTemplates == Reply(200)
GetTemplate(i) == Lookup(i, templates, 404)

handleListTemplates == ListTemplates /\ UNCHANGED <<imageVars, templateVars, entering>>

handleGetTemplate == /\ \E i \in 1 .. MaxTemplateID : GetTemplate(i)
                     /\ UNCHANGED <<imageVars, templateVars, entering>>

RgNext ==
    \/ \E c \in Users : handleRegisterImage(c) \/ handleCreateTemplate(c)
    \/ handleDeleteImage \/ handleListImages \/ handleGetImage
    \/ handleDeleteTemplate \/ handleListTemplates \/ handleGetTemplate

RgSpec == RgInit /\ [][RgNext]_rgVars

-----------------------------------------------------------------------------
\* Two requests never get the same id: an entry of either table is never
\* replaced by another one, in whatever order ids are taken, entries are made
\* and entries are deleted.
EntryNeverReplaced ==
    [][/\ \A i \in DOMAIN images \cap DOMAIN images' : images'[i] = images[i]
       /\ \A i \in DOMAIN templates \cap DOMAIN templates' : templates'[i] = templates[i]
      ]_rgVars
=============================================================================
