----------------------------- MODULE ServiceParts -----------------------------
(***************************************************************************)
(* The parts of Services that ServicesProofs is about: tenants, versions   *)
(* of models, of taxonomies and of pipelines, and trainings, an instance   *)
(* of each.                                                                *)
(***************************************************************************)
CONSTANTS
    Tenant, Person, Caller, UserSession, Home,                  \* Tenants
    ModelSession, MaxModelVersion, ModelFaults, MaxModelFaults, \* ModelVersions
    TaxonomyId, TaxTenant, TaxSession, LinkRequests,
    MaxTaxonomyVersion,                                         \* Taxonomies
    Basement, Training, TrainSession, MaxExports,               \* Trainings
    PipelineId, PipelineName, FirstVersion, Trees, TaskId, PageSize,
    CatalogueFaults                                             \* PipelineCatalogue

VARIABLES
    buckets, groups, persons, invited, userRequest, granted, registered, overwritten,
    models, service, mapping, modelRequest, mishaps, modelFaults,
    taxonomies, taxLinks, taxRequest, taxCrossed,
    basements, trainings, lastExport, exported, colab, running, trainRequest,
    mixedStarts, othersResults,
    catalogue, assigned, pipelineTasks, demoted

U == INSTANCE Tenants

M == INSTANCE ModelVersions

X == INSTANCE Taxonomies

N == INSTANCE Trainings

C == INSTANCE PipelineCatalogue

=============================================================================
